---- MODULE Spec2Model ----
(***************************************************************************)
(* x402check: the layered validation pipeline validate(), with detect()    *)
(* and normalize(), as designed in the repository's architecture and       *)
(* feature research (validate.ts pseudocode, DF-4 strict mode, DF-5        *)
(* format detection, the network registry and the address dispatch).       *)
(*                                                                         *)
(* One state of the model is one client session: a call of a public        *)
(* function on an input, advanced level by level, which the client may     *)
(* repeat on the same input with strict mode switched on.                  *)
(*                                                                         *)
(* JSON values.  An object is a TLA+ record whose DOMAIN is the set of     *)
(* keys present.  The entry list `accepts` is a sequence of entry records. *)
(* A nullable value (normalized, parse error) is a sequence of length 0    *)
(* (null) or 1.  A field path `accepts[i].name` is the record              *)
(* [list |-> "accepts", index |-> i, name |-> name]; a top-level path      *)
(* `name` is [list |-> "", index |-> -1, name |-> name].  An issue's       *)
(* optional `fix` is <<>> (none), <<text>>, or the address to use.         *)
(***************************************************************************)
EXTENDS Integers, Sequences, FiniteSets, TLC

VARIABLES
    op,          \* the function called: "validate" | "detect" | "normalize", or a
                 \* vendored function or the address dispatch on its own
    input,       \* the call's first argument
    strict,      \* options.strict of a validate call
    pc,          \* position of the call in the pipeline
    parsed,      \* validate: parsed.value, <<>> before Level 0
    format,      \* validate: the detected format, "" before Level 1
    normalized,  \* validate: the NormalizedConfig, <<>> before Level 2
    issues,      \* validate: the local issues array
    i,           \* validate: the loop index over normalized.accepts
    log,         \* history: the rule invocations so far, in order
    result,      \* <<>> while running, <<value returned>> at "done"
    prev,        \* <<>>, or <<result>> of the finished non-strict call on the same input
    registry,    \* the process-wide network registry (networks.ts), shared by all calls
    calls        \* the concurrent calls in progress, each with its own locals

vars == <<op, input, strict, pc, parsed, format, normalized, issues, i, log, result, prev,
          registry, calls>>

\* Longest entry list among the inputs.
MaxEntries == 2
\* Longest enumerated Base58 text, and longest enumerated byte sequence.
MaxStrLen == 4
MaxBytes == 3
\* Longest enumerated Base58 text decoded one loop iteration at a time.
MaxStepLen == 3
\* Longest text of the largest digit decoded one loop iteration at a time
\* (an address has at most 44 characters).
MaxWorstLen == 44

(***************************************************************************)
(* Sequence helpers                                                        *)
(***************************************************************************)
\* Array.prototype.filter with the predicate `x.severity === sev`.
Filter(s, sev) ==
    LET Keep(x) == x.severity = sev
    IN  SelectSeq(s, Keep)

Range(s) == {s[k] : k \in 1..Len(s)}

(***************************************************************************)
(* Issues and field paths                                                  *)
(***************************************************************************)
\* The mutant of EntryPath for C9: the index is counted from one.
EntryPath_oneBased(idx) == [list |-> "accepts", index |-> idx + 1]

\* `accepts[${i}]`
EntryPath(idx) == [list |-> "accepts", index |-> idx]
FieldPath(path, name) == [list |-> path.list, index |-> path.index, name |-> name]
TopPath(name) == [list |-> "", index |-> -1, name |-> name]

Issue(code, field, severity, fix) ==
    [code |-> code, field |-> field, severity |-> severity, fix |-> fix]
Error(code, field) == Issue(code, field, "error", <<>>)
Warning(code, field, fix) == Issue(code, field, "warning", fix)

\* What a rule yields in place of its issues when an exception escapes it.
Exception == <<Issue("EXCEPTION", TopPath("$"), "exception", <<>>)>>

(***************************************************************************)
(* Registries                                                              *)
(***************************************************************************)
\* A network value is the sequence of its characters; this is the spelling
\* of the network values the model is run on (the registry's keys, the
\* simple chain names and the sample values).
NetworkChars(network) ==
    CASE network = "eip155:8453" ->
            <<"e", "i", "p", "1", "5", "5", ":", "8", "4", "5", "3">>
      [] network = "eip155:84532" ->
            <<"e", "i", "p", "1", "5", "5", ":", "8", "4", "5", "3", "2">>
      [] network = "eip155:1" ->
            <<"e", "i", "p", "1", "5", "5", ":", "1">>
      [] network = "eip155:11155111" ->
            <<"e", "i", "p", "1", "5", "5", ":", "1", "1", "1", "5", "5", "1",
            "1", "1">>
      [] network = "eip155:43114" ->
            <<"e", "i", "p", "1", "5", "5", ":", "4", "3", "1", "1", "4">>
      [] network = "solana:5eykt4UsFv8P8NJdTREpY1vzqKqZKvdp" ->
            <<"s", "o", "l", "a", "n", "a", ":", "5", "e", "y", "k", "t", "4",
            "U", "s", "F", "v", "8", "P", "8", "N", "J", "d", "T", "R", "E", "p",
            "Y", "1", "v", "z", "q", "K", "q", "Z", "K", "v", "d", "p">>
      [] network = "solana:EtWTRABZaYq6iMfeYKouRu166VU2xqa1" ->
            <<"s", "o", "l", "a", "n", "a", ":", "E", "t", "W", "T", "R", "A",
            "B", "Z", "a", "Y", "q", "6", "i", "M", "f", "e", "Y", "K", "o", "u",
            "R", "u", "1", "6", "6", "V", "U", "2", "x", "q", "a", "1">>
      [] network = "stellar:pubnet" ->
            <<"s", "t", "e", "l", "l", "a", "r", ":", "p", "u", "b", "n", "e",
            "t">>
      [] network = "aptos:1" ->
            <<"a", "p", "t", "o", "s", ":", "1">>
      [] network = "base" ->
            <<"b", "a", "s", "e">>
      [] network = "base-sepolia" ->
            <<"b", "a", "s", "e", "-", "s", "e", "p", "o", "l", "i", "a">>
      [] network = "ethereum" ->
            <<"e", "t", "h", "e", "r", "e", "u", "m">>
      [] network = "solana" ->
            <<"s", "o", "l", "a", "n", "a">>
      [] network = "solana-devnet" ->
            <<"s", "o", "l", "a", "n", "a", "-", "d", "e", "v", "n", "e", "t">>
      [] network = "eip155:99999" ->
            <<"e", "i", "p", "1", "5", "5", ":", "9", "9", "9", "9", "9">>
      [] network = "solana:localnet" ->
            <<"s", "o", "l", "a", "n", "a", ":", "l", "o", "c", "a", "l", "n",
            "e", "t">>
      [] network = "cosmos:cosmoshub-4" ->
            <<"c", "o", "s", "m", "o", "s", ":", "c", "o", "s", "m", "o", "s",
            "h", "u", "b", "-", "4">>
      [] network = "eip155" ->
            <<"e", "i", "p", "1", "5", "5">>
      [] network = "not a network" ->
            <<"n", "o", "t", " ", "a", " ", "n", "e", "t", "w", "o", "r", "k">>
      [] network = ":8453" ->
            <<":", "8", "4", "5", "3">>
      [] network = "EIP155:8453" ->
            <<"E", "I", "P", "1", "5", "5", ":", "8", "4", "5", "3">>

\* networks.ts NETWORKS: CAIP-2 id -> address family (name and testnet flag
\* are display data).
NETWORKS ==
    [n \in {NetworkChars("eip155:8453"), NetworkChars("eip155:84532"), NetworkChars("eip155:1"), NetworkChars("eip155:11155111"),
            NetworkChars("eip155:43114"),
            NetworkChars("solana:5eykt4UsFv8P8NJdTREpY1vzqKqZKvdp"),
            NetworkChars("solana:EtWTRABZaYq6iMfeYKouRu166VU2xqa1"),
            NetworkChars("stellar:pubnet"), NetworkChars("aptos:1")} |->
        CASE n \in {NetworkChars("eip155:8453"), NetworkChars("eip155:84532"), NetworkChars("eip155:1"),
                    NetworkChars("eip155:11155111"), NetworkChars("eip155:43114")} -> "evm"
          [] n \in {NetworkChars("solana:5eykt4UsFv8P8NJdTREpY1vzqKqZKvdp"),
                    NetworkChars("solana:EtWTRABZaYq6iMfeYKouRu166VU2xqa1")} -> "solana"
          [] n = NetworkChars("stellar:pubnet") -> "stellar"
          [] OTHER -> "aptos"]

\* networks.ts SIMPLE_NAME_MAP: friendly alias -> CAIP-2 id.
SIMPLE_NAME_MAP ==
    [a \in {NetworkChars("base"), NetworkChars("base-sepolia"), NetworkChars("ethereum"),
            NetworkChars("solana"), NetworkChars("solana-devnet")} |->
        CASE a = NetworkChars("base") -> NetworkChars("eip155:8453")
          [] a = NetworkChars("base-sepolia") -> NetworkChars("eip155:84532")
          [] a = NetworkChars("ethereum") -> NetworkChars("eip155:1")
          [] a = NetworkChars("solana") -> NetworkChars("solana:5eykt4UsFv8P8NJdTREpY1vzqKqZKvdp")
          [] OTHER -> NetworkChars("solana:EtWTRABZaYq6iMfeYKouRu166VU2xqa1")]

\* The registry as loaded at start-up: the two module-level tables.
StartupRegistry == [NETWORKS |-> NETWORKS, SIMPLE_NAME_MAP |-> SIMPLE_NAME_MAP]

(***************************************************************************)
(* Text.  TLC cannot look inside a string, so a text the program reads     *)
(* character by character (an address) is a sequence of one-character      *)
(* strings; network identifiers and amounts stay strings.                  *)
(***************************************************************************)
UPPERCASE ==
    <<"A", "B", "C", "D", "E", "F", "G", "H", "I", "J", "K", "L", "M",
      "N", "O", "P", "Q", "R", "S", "T", "U", "V", "W", "X", "Y", "Z">>
LOWERCASE ==
    <<"a", "b", "c", "d", "e", "f", "g", "h", "i", "j", "k", "l", "m",
      "n", "o", "p", "q", "r", "s", "t", "u", "v", "w", "x", "y", "z">>

DecimalDigits == {"0", "1", "2", "3", "4", "5", "6", "7", "8", "9"}

\* The 1-based position of a character in a sequence of characters, 0 if absent.
IndexOf(seq, ch) ==
    IF \E k \in 1..Len(seq) : seq[k] = ch
    THEN CHOOSE k \in 1..Len(seq) : seq[k] = ch
    ELSE 0

toLowerCaseChar(ch) ==
    IF IndexOf(UPPERCASE, ch) > 0 THEN LOWERCASE[IndexOf(UPPERCASE, ch)] ELSE ch
toUpperCaseChar(ch) ==
    IF IndexOf(LOWERCASE, ch) > 0 THEN UPPERCASE[IndexOf(LOWERCASE, ch)] ELSE ch

\* String.prototype.toLowerCase / toUpperCase.
ToLowerCase(text) == [k \in 1..Len(text) |-> toLowerCaseChar(text[k])]
ToUpperCase(text) == [k \in 1..Len(text) |-> toUpperCaseChar(text[k])]

\* n copies of a character.
Repeat(ch, n) == [k \in 1..n |-> ch]

(***************************************************************************)
(* Sample addresses                                                        *)
(***************************************************************************)
\* The four EIP-55 reference addresses and the USDC contract on Base.
ADDR_OK ==
    <<"0", "x", "5", "a", "A", "e", "b", "6", "0", "5", "3", "F", "3", "E",
      "9", "4", "C", "9", "b", "9", "A", "0", "9", "f", "3", "3", "6", "6",
      "9", "4", "3", "5", "E", "7", "E", "f", "1", "B", "e", "A", "e", "d">>
EIP55_B ==
    <<"0", "x", "f", "B", "6", "9", "1", "6", "0", "9", "5", "c", "a", "1",
      "d", "f", "6", "0", "b", "B", "7", "9", "C", "e", "9", "2", "c", "E",
      "3", "E", "a", "7", "4", "c", "3", "7", "c", "5", "d", "3", "5", "9">>
EIP55_C ==
    <<"0", "x", "d", "b", "F", "0", "3", "B", "4", "0", "7", "c", "0", "1",
      "E", "7", "c", "D", "3", "C", "B", "e", "a", "9", "9", "5", "0", "9",
      "d", "9", "3", "f", "8", "D", "D", "D", "C", "8", "C", "6", "F", "B">>
EIP55_D ==
    <<"0", "x", "D", "1", "2", "2", "0", "A", "0", "c", "f", "4", "7", "c",
      "7", "B", "9", "B", "e", "7", "A", "2", "E", "6", "B", "A", "8", "9",
      "F", "4", "2", "9", "7", "6", "2", "e", "7", "b", "9", "a", "D", "b">>
USDC_BASE ==
    <<"0", "x", "8", "3", "3", "5", "8", "9", "f", "C", "D", "6", "e", "D",
      "b", "6", "E", "0", "8", "f", "4", "c", "7", "C", "3", "2", "D", "4",
      "f", "7", "1", "b", "5", "4", "b", "d", "A", "0", "2", "9", "1", "3">>
\* A checksummed address with a single uppercase letter.
ADDR_CAFE ==
    <<"0", "x", "0", "0", "0", "0", "0", "0", "0", "0", "0", "0", "0", "0",
      "0", "0", "0", "0", "0", "0", "0", "0", "0", "0", "0", "0", "0", "0",
      "0", "0", "0", "0", "0", "0", "0", "0", "0", "0", "c", "a", "f", "E">>
\* ADDR_OK with the case of its first letter flipped.
ADDR_FLIPPED ==
    <<"0", "x", "5", "A", "A", "e", "b", "6", "0", "5", "3", "F", "3", "E",
      "9", "4", "C", "9", "b", "9", "A", "0", "9", "f", "3", "3", "6", "6",
      "9", "4", "3", "5", "E", "7", "E", "f", "1", "B", "e", "A", "e", "d">>
\* Too short for an address.
ADDR_SHORT ==
    <<"0", "x", "5", "a", "A", "e", "b", "6">>
\* The USDC mint: 44 characters that decode to 32 bytes.
SOL_USDC ==
    <<"E", "P", "j", "F", "W", "d", "d", "5", "A", "u", "f", "q", "S", "S",
      "q", "e", "M", "2", "q", "N", "1", "x", "z", "y", "b", "a", "p", "C",
      "8", "G", "4", "w", "E", "G", "G", "k", "Z", "w", "y", "T", "D", "t",
      "1", "v">>
\* Characters outside the alphabet (0, O, I, l).
SOL_BADCHAR ==
    <<"0", "O", "I", "l", "1", "1", "1", "1", "1", "1", "1", "1", "1", "1",
      "1", "1", "1", "1", "1", "1", "1", "1", "1", "1", "1", "1", "1", "1",
      "1", "1", "1", "1">>
\* An asset given by its symbol.
SYM_USDC ==
    <<"U", "S", "D", "C">>
\* The system program address: 32 '1' characters.
SOL_ZEROS == SubSeq(Repeat("1", 32), 1, 32)
\* 44 '1' characters.
SOL_ZEROS44 == SubSeq(Repeat("1", 44), 1, 44)
\* The first 20 characters of the USDC mint: they decode to 15 bytes.
SOL_SHORT == SubSeq(SOL_USDC, 1, 20)
\* The USDC mint followed by one more character: 33 bytes.
SOL_LONG == SOL_USDC \o <<"1">>
\* The USDC mint with its last letter mistyped in the other case: 32 bytes.
SOL_TYPO == [SOL_USDC EXCEPT ![44] = "V"]

\* ADDR_OK in lowercase and in uppercase (the prefix stays 0x).
ADDR_LOWER == SubSeq(ToLowerCase(ADDR_OK), 1, Len(ADDR_OK))
ADDR_UPPER == <<"0", "x">> \o ToUpperCase(SubSeq(ADDR_OK, 3, Len(ADDR_OK)))

(***************************************************************************)
(* vendor/keccak256.ts and the EIP-55 checksum                             *)
(***************************************************************************)
HexChars ==
    {"0", "1", "2", "3", "4", "5", "6", "7", "8", "9",
     "a", "b", "c", "d", "e", "f", "A", "B", "C", "D", "E", "F"}

\* /^0x[0-9a-fA-F]{40}$/
IsHexAddress(address) ==
    /\ Len(address) = 42
    /\ address[1] = "0" /\ address[2] = "x"
    /\ \A k \in 3..42 : address[k] \in HexChars

\* The 40 hex characters after the prefix.
Hex40(address) == SubSeq(address, 3, Len(address))

\* String.prototype.replace('0x', ''): the first occurrence is removed.
replace0x(text) ==
    IF \E k \in 1..(Len(text) - 1) : text[k] = "0" /\ text[k + 1] = "x"
    THEN LET k == CHOOSE h \in 1..(Len(text) - 1) :
                      /\ text[h] = "0" /\ text[h + 1] = "x"
                      /\ \A g \in 1..(h - 1) : ~(text[g] = "0" /\ text[g + 1] = "x")
         IN  SubSeq(text, 1, k - 1) \o SubSeq(text, k + 2, Len(text))
    ELSE text

\* The text toChecksumAddress hashes for a sample address.
LowerHex(address) == SubSeq(ToLowerCase(address), 3, Len(address))

\* keccak256 of the ASCII bytes of a text, as its 32 digest bytes: the
\* values of the function on the lowercase hex text of the sample accounts.
keccak256(text) ==
    CASE text = LowerHex(ADDR_OK) ->
        <<211, 133, 101, 12, 232, 253, 198, 219, 126, 227, 160, 145, 211,
          72, 20, 219, 196, 206, 24, 33, 159, 250, 229, 33, 130, 239, 255,
          64, 52, 215, 7, 229>>
      [] text = LowerHex(EIP55_B) ->
        <<92, 250, 198, 99, 244, 88, 55, 180, 9, 196, 211, 220, 28, 239,
          95, 71, 89, 115, 79, 73, 137, 221, 83, 163, 27, 18, 101, 115, 76,
          11, 40, 244>>
      [] text = LowerHex(EIP55_C) ->
        <<117, 205, 57, 88, 226, 81, 222, 12, 73, 245, 77, 169, 155, 119,
          247, 154, 219, 239, 146, 202, 237, 54, 175, 142, 129, 243, 167,
          221, 189, 225, 123, 185>>
      [] text = LowerHex(EIP55_D) ->
        <<200, 188, 93, 16, 36, 146, 56, 185, 42, 203, 131, 138, 134, 216,
          131, 187, 146, 83, 196, 176, 44, 235, 27, 63, 146, 125, 12, 62,
          192, 158, 239, 108>>
      [] text = LowerHex(USDC_BASE) ->
        <<76, 77, 12, 43, 180, 45, 54, 187, 37, 19, 29, 6, 189, 35, 215, 0,
          112, 239, 26, 155, 209, 55, 142, 92, 60, 129, 103, 79, 187, 212,
          18, 197>>
      [] text = LowerHex(ADDR_CAFE) ->
        <<226, 182, 16, 118, 179, 154, 110, 158, 72, 141, 183, 208, 254,
          57, 223, 52, 43, 79, 119, 78, 42, 219, 105, 16, 228, 83, 226,
          146, 121, 12, 35, 18>>

\* The loop of toChecksumAddress over the lowercase text and its digest: for
\* i < 40 take the high nibble of hash[i >> 1] for even i, the low nibble
\* for odd i, and uppercase addr[i] when the nibble is >= 8.
checksumCase(addr, hash) ==
    LET nibble(n) == IF n % 2 = 0 THEN hash[(n \div 2) + 1] \div 16
                     ELSE hash[(n \div 2) + 1] % 16
    IN  <<"0", "x">> \o
        [k \in 1..40 |-> IF nibble(k - 1) >= 8 THEN toUpperCaseChar(addr[k]) ELSE addr[k]]

\* The text toChecksumAddress hashes: lowercase, prefix removed.
checksumText(address) == replace0x(SubSeq(ToLowerCase(address), 1, Len(address)))

\* The mutant of toChecksumAddress for C17: the text is hashed in lowercase
\* but the loop runs over the text as given.
toChecksumAddress_keepCase(address) ==
    checksumCase(replace0x(address), keccak256(checksumText(address)))

\* toChecksumAddress: lowercase without the prefix, hash the text, recase
\* (`const addr`, `const hash`: each is computed once and then only read).
toChecksumAddress(address) ==
    CHOOSE checksummed \in
        {checksumCase(c.addr, c.hash) :
            c \in {[addr |-> addr, hash |-> keccak256(addr)] :
                      addr \in {checksumText(address)}}} : TRUE

\* The mutant of isValidChecksumAddress for C16: the comparison ignores the
\* letter case.
isValidChecksumAddress_ignoreCase(address) ==
    ToLowerCase(address) = ToLowerCase(toChecksumAddress(address))

\* isValidChecksumAddress
isValidChecksumAddress(address) == address = toChecksumAddress(address)

(***************************************************************************)
(* vendor/base58.ts                                                        *)
(***************************************************************************)
ALPHABET ==
    <<"1", "2", "3", "4", "5", "6", "7", "8", "9",
      "A", "B", "C", "D", "E", "F", "G", "H", "J", "K", "L", "M", "N", "P",
      "Q", "R", "S", "T", "U", "V", "W", "X", "Y", "Z",
      "a", "b", "c", "d", "e", "f", "g", "h", "i", "j", "k", "m", "n", "o",
      "p", "q", "r", "s", "t", "u", "v", "w", "x", "y", "z">>

\* The mutant of map for C28: the table is not filled with 255, so a
\* character outside ALPHABET reads as digit 0.
map_notFilled(ch) == IF IndexOf(ALPHABET, ch) > 0 THEN IndexOf(ALPHABET, ch) - 1 ELSE 0

\* The reverse lookup table: map[ch], 255 for a character outside ALPHABET.
map(ch) == IF IndexOf(ALPHABET, ch) > 0 THEN IndexOf(ALPHABET, ch) - 1 ELSE 255

\* ch >= 128, on the sample characters: the ones that are not ASCII.
NonAsciiChars == {"é", "€"}
IsNonAscii(ch) == ch \in NonAsciiChars

RECURSIVE CountLeading(_, _, _)
\* The number of leading elements of a sequence equal to x, from position k.
CountLeading(s, x, k) ==
    IF k <= Len(s) /\ s[k] = x THEN 1 + CountLeading(s, x, k + 1) ELSE 0

\* The mutant of BufferSize for C30: the factor 500 / 1000.
BufferSize_halfFactor(str) == ((Len(str) * 500 + 999) \div 1000) + 1

\* Math.ceil(str.length * 733 / 1000) + 1
BufferSize(str) == ((Len(str) * 733 + 999) \div 1000) + 1

RECURSIVE CarryInto(_, _, _, _)
\* The inner loop's `carry` on entering position j (j runs from the last
\* position of the buffer down to the first): the digit at the last
\* position, then (carry + from * buf[j + 1]) / to, rounded down.
CarryInto(buf, j, digit, base) ==
    IF j = Len(buf) THEN digit
    ELSE (CarryInto(buf, j + 1, digit, base) + base[1] * buf[j + 1]) \div base[2]

\* The inner loop over the whole buffer: buf = buf * from + digit, in
\* digits of radix `to` (base = <<from, to>>); the carry out of the first
\* position is dropped.
MulAdd(buf, digit, base) ==
    SubSeq([j \in 1..Len(buf) |->
               (CarryInto(buf, j, digit, base) + base[1] * buf[j]) % base[2]],
           1, Len(buf))

RECURSIVE B58Convert(_, _, _)
\* The outer loop from character n on: <<>> when a character is not in the
\* alphabet (the throw), else <<b256>>.
B58Convert(str, n, b256) ==
    IF n > Len(str) \/ Len(b256) = 0 THEN <<b256>>
    ELSE IF IsNonAscii(str[n]) \/ map(str[n]) = 255 THEN <<>>
    ELSE B58Convert(str, n + 1, MulAdd(b256, map(str[n]), <<58, 256>>))

\* A buffer of n zero bytes (new Uint8Array(n)).
Zeros(n) == SubSeq(Repeat(0, n), 1, n)

\* The end of base58Decode: the throw, or `zeros` zero bytes followed by
\* the buffer from its first non-zero byte.
B58Result(zeros, size, done) ==
    IF done = <<>> THEN [threw |-> TRUE, bytes |-> <<>>]
    ELSE [threw |-> FALSE,
          bytes |-> Zeros(zeros) \o
                    SubSeq(done[1], CountLeading(done[1], 0, 1) + 1, size)]

\* The mutant of base58Decode for C19: a pure base conversion of the whole
\* text, in which the leading '1' characters (digit 0) are lost.
base58Decode_pureConversion(str) ==
    B58Result(0, BufferSize(str), B58Convert(str, 1, Zeros(BufferSize(str))))

\* The mutant of base58Decode for C18: the leading '1' characters are not
\* turned into zero bytes.
base58Decode_noLeadingZeros(str) ==
    B58Result(0, BufferSize(str),
              B58Convert(str, CountLeading(str, "1", 1) + 1, Zeros(BufferSize(str))))

\* The mutant of base58Decode for C20: the zero bytes at the front of the
\* work buffer are not skipped.
base58Decode_noSkip(str) ==
    B58Result(CountLeading(str, "1", 1) + BufferSize(str), BufferSize(str),
              B58Convert(str, CountLeading(str, "1", 1) + 1, Zeros(BufferSize(str))))

\* base58Decode: count the leading '1's, convert the rest from base 58 to
\* base 256 in a buffer of `size` bytes, skip the buffer's leading zeros,
\* and return `zeros` zero bytes followed by the rest of the buffer.  The
\* outcome is the exception (threw) or the bytes.
base58Decode(str) ==
    B58Result(CountLeading(str, "1", 1), BufferSize(str),
              B58Convert(str, CountLeading(str, "1", 1) + 1, Zeros(BufferSize(str))))

RECURSIVE B58EncodeConvert(_, _, _)
\* The encoder's outer loop from byte n on.
B58EncodeConvert(bytes, n, b58) ==
    IF n > Len(bytes) \/ Len(b58) = 0 THEN b58
    ELSE B58EncodeConvert(bytes, n + 1, MulAdd(b58, bytes[n], <<256, 58>>))

\* Base58 encoding of a byte sequence (the inverse the decoder is tested
\* against): one '1' per leading zero byte, then the base-58 digits of the
\* rest, most significant first.
base58Encode(bytes) ==
    LET zeros == CountLeading(bytes, 0, 1)
        size == (((Len(bytes) - zeros) * 138) \div 100) + 1
        digits == B58EncodeConvert(bytes, zeros + 1, Zeros(size))
        start == CountLeading(digits, 0, 1)
    IN  Repeat("1", zeros) \o [k \in 1..(size - start) |-> ALPHABET[digits[start + k] + 1]]

\* Sample identifiers that are not in the registry: two with the namespace
\* of a known address family, one without.
UnregisteredNetworks ==
    {NetworkChars("eip155:99999"), NetworkChars("solana:localnet"),
     NetworkChars("cosmos:cosmoshub-4")}

\* Sample network values without a namespace, a ':' or a lowercase namespace.
MalformedNetworks ==
    {NetworkChars("eip155"), NetworkChars("not a network"), NetworkChars(":8453"),
     NetworkChars("EIP155:8453")}

\* The character classes of the CAIP-2 pattern: [-a-z] and [-a-zA-Z0-9].
NamespaceClass == Range(LOWERCASE) \cup {"-"}
ReferenceClass == Range(LOWERCASE) \cup Range(UPPERCASE) \cup DecimalDigits \cup {"-"}

\* text is between lo and hi characters long, all of them in the class.
Matches(text, class, lo, hi) ==
    /\ Len(text) >= lo /\ Len(text) <= hi
    /\ \A k \in DOMAIN text : text[k] \in class

\* The position of the first ':' of a text, 0 when it has none.
ColonAt(text) ==
    IF \E k \in DOMAIN text : text[k] = ":"
    THEN CHOOSE k \in DOMAIN text :
            text[k] = ":" /\ \A m \in 1..(k - 1) : text[m] # ":"
    ELSE 0

\* /^[-a-z]{3,16}:[-a-zA-Z0-9]{3,47}$/ on the characters of a text: neither
\* class holds ':', so the namespace ends at the first ':'.
MatchesCaip2(text) ==
    /\ ColonAt(text) > 0
    /\ Matches(SubSeq(text, 1, ColonAt(text) - 1), NamespaceClass, 3, 16)
    /\ Matches(SubSeq(text, ColonAt(text) + 1, Len(text)), ReferenceClass, 3, 47)

\* The CAIP-2 format check on a network value.  As printed the pattern has
\* no digit in the namespace, so it matches no `eip155:` identifier.
IsCaip2(network) == MatchesCaip2(network)

\* The characters of a network value before its first ':'.
Namespace(network) == SubSeq(network, 1, ColonAt(network) - 1)

\* The address family a network is validated by: the registry's for a known
\* network, else the one of its CAIP-2 namespace (`eip155:*` uses the EVM
\* rules, `solana:*` the Solana rules), else none.
NamespaceFamily(network) ==
    CASE network \in DOMAIN NETWORKS -> NETWORKS[network]
      [] Namespace(network) = <<"e", "i", "p", "1", "5", "5">> -> "evm"
      [] Namespace(network) = <<"s", "o", "l", "a", "n", "a">> -> "solana"
      [] OTHER -> ""

(***************************************************************************)
(* Sample entries and documents                                            *)
(***************************************************************************)
\* Scenario A's entry: no issue.
E_ok ==
    [scheme |-> "exact", network |-> NetworkChars("eip155:8453"), amount |-> "1000000",
     asset |-> USDC_BASE, payTo |-> ADDR_OK, maxTimeoutSeconds |-> 60]
\* One letter of payTo flipped: one error from the address rule.
E_flipped ==
    [scheme |-> "exact", network |-> NetworkChars("eip155:8453"), amount |-> "1000000",
     asset |-> USDC_BASE, payTo |-> ADDR_FLIPPED, maxTimeoutSeconds |-> 60]
\* Errors from three rules at once: scheme missing, amount zero, payTo flipped.
E_multi ==
    [network |-> NetworkChars("eip155:8453"), amount |-> "0",
     asset |-> USDC_BASE, payTo |-> ADDR_FLIPPED]
\* A raw-public-key address: one warning, no error.
E_sol ==
    [scheme |-> "exact", network |-> NetworkChars("solana:5eykt4UsFv8P8NJdTREpY1vzqKqZKvdp"),
     amount |-> "1000000", asset |-> SYM_USDC, payTo |-> SOL_ZEROS]
\* A raw-public-key address with characters outside the alphabet.
E_solbad ==
    [scheme |-> "exact", network |-> NetworkChars("solana:5eykt4UsFv8P8NJdTREpY1vzqKqZKvdp"),
     amount |-> "1000000", asset |-> SYM_USDC, payTo |-> SOL_BADCHAR]
\* A previous-format entry: maxAmountRequired in place of amount.
E_v1 ==
    [scheme |-> "exact", network |-> NetworkChars("eip155:8453"), maxAmountRequired |-> "1000000",
     asset |-> USDC_BASE, payTo |-> ADDR_OK, maxTimeoutSeconds |-> 60]

EntrySamples == {E_ok, E_flipped, E_multi, E_sol, E_solbad, E_v1}

RECURSIVE SeqsUpTo(_, _)
SeqsUpTo(S, n) ==
    IF n = 0 THEN {<<>>}
    ELSE LET shorter == SeqsUpTo(S, n - 1)
         IN  shorter \cup {Append(s, e) : s \in {t \in shorter : Len(t) = n - 1}, e \in S}

EntryLists == SeqsUpTo(EntrySamples, MaxEntries)

EmptyObject == [k \in {} |-> 0]
RESOURCE_OK  == [url |-> "https://example.com"]
RESOURCE_BAD == [url |-> "not a url"]

VersionParts == {EmptyObject, [x402Version |-> 1], [x402Version |-> 2], [x402Version |-> 3]}
ResourceParts == {EmptyObject, [resource |-> RESOURCE_OK], [resource |-> RESOURCE_BAD]}

\* Documents with an entry list.
ListObjects ==
    {v @@ r @@ [accepts |-> l] : v \in VersionParts, r \in ResourceParts, l \in EntryLists}

\* Documents with root-level payment fields and no entry list.
FlatParts ==
    {[scheme |-> "exact", network |-> NetworkChars("eip155:8453"), amount |-> "1000000",
      asset |-> USDC_BASE, payTo |-> ADDR_OK],
     [network |-> NetworkChars("eip155:8453"), amount |-> "0", payTo |-> ADDR_FLIPPED],
     [payTo |-> ADDR_OK],
     [amount |-> "1000000"]}
FlatObjects == {v @@ r @@ f : v \in VersionParts, r \in {EmptyObject, [resource |-> RESOURCE_OK]}, f \in FlatParts}

\* Documents with an entry list and root-level payment fields.
MixedObjects ==
    {v @@ r @@ [accepts |-> <<E_ok>>, payTo |-> ADDR_OK, amount |-> "1000000"] :
        v \in VersionParts, r \in ResourceParts}

\* Documents with neither.
OtherObjects ==
    {EmptyObject, [foo |-> "bar"], [x402Version |-> 2, resource |-> RESOURCE_OK],
     [network |-> NetworkChars("eip155:8453"), scheme |-> "exact"]}

\* Scenario D (a recipient of 44 '1' characters), the same with the real
\* mint address, and configs whose entries name the network by an alias.
E_sol44 == [E_sol EXCEPT !.payTo = SOL_ZEROS44]
E_solusdc == [E_sol EXCEPT !.payTo = SOL_USDC]
E_alias == [E_ok EXCEPT !.network = NetworkChars("base")]
E_v1alias == [E_v1 EXCEPT !.network = NetworkChars("base-sepolia")]
ScenarioObjects ==
    {[x402Version |-> 2, resource |-> RESOURCE_OK, accepts |-> <<e>>] :
        e \in {E_sol44, E_solusdc, E_alias}}
    \cup {[x402Version |-> 1, accepts |-> <<E_v1alias>>],
          [network |-> NetworkChars("base"), amount |-> "1000000", payTo |-> ADDR_OK,
           scheme |-> "exact", asset |-> USDC_BASE],
          [network |-> NetworkChars("eip155:8453"), amount |-> "1000000", payTo |-> ADDR_OK,
           scheme |-> "exact", currency |-> SYM_USDC]}

Objects == ListObjects \cup FlatObjects \cup MixedObjects \cup OtherObjects \cup ScenarioObjects

\* The inputs of a call.  A string input is its text class and, for the text
\* of a JSON object, the object JSON.parse yields; "other" is a non-string,
\* non-object argument (null, a number, an array).
ObjectInput(obj) == [kind |-> "object", text |-> "", value |-> obj]
StringInput(text, obj) == [kind |-> "string", text |-> text, value |-> obj]
Inputs ==
    {ObjectInput(o) : o \in Objects}
    \cup {StringInput("JSON", o) : o \in {x \in Objects : "accepts" \in DOMAIN x => Len(x.accepts) <= 1}}
    \cup {StringInput(t, EmptyObject) : t \in {"", "{not valid json", "42", "null", "[1,2]"}}
    \cup {[kind |-> "other", text |-> "", value |-> EmptyObject]}

\* The arguments of base58Decode: every text of up to MaxStrLen characters
\* over a few characters of the alphabet and one outside it, the sample
\* addresses, and the encodings of every sequence of up to MaxBytes bytes
\* over a few byte values (`of` is then <<the bytes encoded>>).
SampleChars == {"1", "2", "z", "0"}
SampleBytes == {0, 1, 58, 255}
\* The characters the alphabet leaves out for their look, and two that are
\* not ASCII; a text with one of them put at any one position.
OutsideChars == {"0", "O", "I", "l"} \cup NonAsciiChars
WithCharAt(text, k, ch) == [text EXCEPT ![k] = ch]
OneOutside(text) == {WithCharAt(text, k, ch) : k \in DOMAIN text, ch \in OutsideChars}
Base58Texts ==
    SeqsUpTo(SampleChars, MaxStrLen)
    \cup {SOL_ZEROS, SOL_ZEROS44, SOL_USDC, SOL_BADCHAR, <<"1", "1">> \o SOL_USDC}
    \cup OneOutside(SOL_SHORT) \cup OneOutside(<<"1", "1", "2", "z">>)
    \cup {WithCharAt(SOL_TYPO, 44, "é")}
ByteSeqs == SeqsUpTo(SampleBytes, MaxBytes)
\* The arguments of base58Decode run one loop iteration at a time: every
\* text of up to MaxStepLen sample characters, an address, 32 '1's, and an
\* address whose last character is outside the alphabet.
\* The texts of one length that convert to the largest value: 'z' (digit
\* 57) at every position.
WorstText(n) == [k \in 1..n |-> "z"]
WorstTexts == {WorstText(n) : n \in 1..MaxWorstLen}
StepTexts ==
    SeqsUpTo(SampleChars, MaxStepLen)
    \cup {SOL_USDC, SOL_ZEROS, WithCharAt(SOL_USDC, 44, "l")}
    \cup WorstTexts
StepInputs == {[kind |-> "base58", str |-> t, of |-> <<>>] : t \in StepTexts}

Base58Inputs ==
    {[kind |-> "base58", str |-> t, of |-> <<>>] : t \in Base58Texts}
    \cup {[kind |-> "base58", str |-> base58Encode(b), of |-> <<b>>] : b \in ByteSeqs}

\* The arguments of toChecksumAddress and of the address rule: each sample
\* account as published, in lowercase, in uppercase, and with the case of
\* any one of its letters flipped.
Accounts == {ADDR_OK, EIP55_B, EIP55_C, EIP55_D, USDC_BASE, ADDR_CAFE}
IsLetter(ch) == IndexOf(UPPERCASE, ch) > 0 \/ IndexOf(LOWERCASE, ch) > 0
FlipAt(address, k) ==
    [address EXCEPT ![k] = IF IndexOf(UPPERCASE, @) > 0
                           THEN toLowerCaseChar(@) ELSE toUpperCaseChar(@)]
SingleFlips(address) == {FlipAt(address, k) : k \in {n \in 3..Len(address) : IsLetter(address[n])}}
Spellings(address) ==
    {address,
     SubSeq(ToLowerCase(address), 1, Len(address)),
     <<"0", "x">> \o ToUpperCase(Hex40(address))}
    \cup SingleFlips(address)
AddressInputs ==
    {[kind |-> "address", address |-> a, networkType |-> "evm"] :
        a \in UNION {Spellings(v) : v \in Accounts} \cup {ADDR_SHORT}}
    \cup {[kind |-> "address", address |-> a, networkType |-> "solana"] :
        a \in {SOL_ZEROS, SOL_ZEROS44, SOL_USDC, SOL_BADCHAR, SOL_SHORT, SOL_LONG, SOL_TYPO}}

\* The command lines of the CLI: --version or --help alone; no input at
\* all; a path to a file that does not exist; or an input given inline
\* (text starting with "{"), as a file or on stdin, with any of --quiet,
\* --json and --strict.  `text` is the input the CLI hands to validate.
NoText == StringInput("", EmptyObject)
CliTexts ==
    {StringInput("JSON", [x402Version |-> 2, resource |-> RESOURCE_OK, accepts |-> <<E_ok>>]),
     StringInput("JSON", [x402Version |-> 2, resource |-> RESOURCE_OK, accepts |-> <<>>]),
     StringInput("JSON", [x402Version |-> 1, accepts |-> <<E_v1>>]),
     StringInput("{not valid json", EmptyObject)}
CliArgs ==
    {[kind |-> "cli", flag |-> f, source |-> "none", text |-> NoText,
      quiet |-> FALSE, json |-> FALSE, strict |-> FALSE] : f \in {"--version", "--help"}}
    \cup {[kind |-> "cli", flag |-> "", source |-> src, text |-> NoText,
           quiet |-> q, json |-> j, strict |-> st] :
              src \in {"none", "missing"}, q \in BOOLEAN, j \in BOOLEAN, st \in BOOLEAN}
    \cup {[kind |-> "cli", flag |-> "", source |-> src, text |-> t,
           quiet |-> q, json |-> j, strict |-> st] :
              src \in {"inline", "file", "stdin"}, t \in CliTexts,
              q \in BOOLEAN, j \in BOOLEAN, st \in BOOLEAN}

\* The sample amounts. An amount is named by its text; a JSON number is named
\* 'number ' followed by the text String() gives for it.
StringAmounts == {"1000000", "0", "-1", "1e6", "0.5", "0.1234567", "1.000000", "0.000", "-0.5", "1E6", "abc"}
NumberAmounts == {"number 1000000", "number 0", "number -1", "number 1e+21", "number 0.5", "number 0.1234567"}
AmountSamples == StringAmounts \cup NumberAmounts

\* The type of a sample amount and the characters of its text.
AmountLiteral(amount) ==
    CASE amount = "1000000" -> [type |-> "string", text |-> <<"1", "0", "0", "0", "0", "0", "0">>]
      [] amount = "0" -> [type |-> "string", text |-> <<"0">>]
      [] amount = "-1" -> [type |-> "string", text |-> <<"-", "1">>]
      [] amount = "1e6" -> [type |-> "string", text |-> <<"1", "e", "6">>]
      [] amount = "0.5" -> [type |-> "string", text |-> <<"0", ".", "5">>]
      [] amount = "0.1234567" -> [type |-> "string", text |-> <<"0", ".", "1", "2", "3", "4", "5", "6", "7">>]
      [] amount = "1.000000" -> [type |-> "string", text |-> <<"1", ".", "0", "0", "0", "0", "0", "0">>]
      [] amount = "0.000" -> [type |-> "string", text |-> <<"0", ".", "0", "0", "0">>]
      [] amount = "-0.5" -> [type |-> "string", text |-> <<"-", "0", ".", "5">>]
      [] amount = "1E6" -> [type |-> "string", text |-> <<"1", "E", "6">>]
      [] amount = "abc" -> [type |-> "string", text |-> <<"a", "b", "c">>]
      [] amount = "number 1000000" -> [type |-> "number", text |-> <<"1", "0", "0", "0", "0", "0", "0">>]
      [] amount = "number 0" -> [type |-> "number", text |-> <<"0">>]
      [] amount = "number -1" -> [type |-> "number", text |-> <<"-", "1">>]
      [] amount = "number 1e+21" -> [type |-> "number", text |-> <<"1", "e", "+", "2", "1">>]
      [] amount = "number 0.5" -> [type |-> "number", text |-> <<"0", ".", "5">>]
      [] amount = "number 0.1234567" -> [type |-> "number", text |-> <<"0", ".", "1", "2", "3", "4", "5", "6", "7">>]

\* An asset the registry does not know.
UNKNOWN_ASSET == <<"X", "Y", "Z">>

\* The arguments of the per-entry rules, `(entry, path)`: the reference
\* entry with every sample network and recipient.
RuleNetworks ==
    DOMAIN NETWORKS \cup DOMAIN SIMPLE_NAME_MAP \cup UnregisteredNetworks \cup MalformedNetworks
RuleAddresses ==
    {ADDR_OK, ADDR_FLIPPED, ADDR_LOWER, ADDR_SHORT,
     SOL_USDC, SOL_ZEROS, SOL_ZEROS44, SOL_BADCHAR, SOL_SHORT, SOL_LONG, SOL_TYPO,
     WithCharAt(SOL_USDC, 44, "l"), WithCharAt(SOL_USDC, 7, "é")}
\* The fields every entry must have, and the reference entry without some
\* of its fields and with a given timeout.
RequiredFields == {"scheme", "network", "amount", "asset", "payTo"}
TimeoutSamples == {60, 1, 0, -5}
Without(entry, gone) == [k \in DOMAIN entry \ gone |-> entry[k]]
WithTimeout(t) == [E_ok EXCEPT !.maxTimeoutSeconds = t]
RuleAssets == {USDC_BASE, SYM_USDC, UNKNOWN_ASSET}
RuleEntries ==
    {[E_ok EXCEPT !.network = n, !.payTo = a] : n \in RuleNetworks, a \in RuleAddresses}
    \cup {[E_ok EXCEPT !.amount = a, !.asset = s] : a \in AmountSamples, s \in RuleAssets}
    \cup {Without(E_ok, gone \cup {"maxTimeoutSeconds"}) : gone \in SUBSET RequiredFields}
    \cup {Without(WithTimeout(t), gone) : t \in TimeoutSamples, gone \in SUBSET RequiredFields}
RuleInputs == {[kind |-> "entry", entry |-> e, index |-> k] : e \in RuleEntries, k \in {0, 1}}

\* The arguments a call of the public or vendored function `fn` is made on.
InputsOf(fn) ==
    CASE fn = "base58Decode" -> Base58Inputs
      [] fn = "rules" -> RuleInputs
      [] fn = "base58DecodeSteps" -> StepInputs
      [] fn = "cli" -> CliArgs
      [] fn = "toChecksumAddress" -> {x \in AddressInputs : x.networkType = "evm" /\ IsHexAddress(x.address)}
      [] fn = "validateAddressForNetwork" -> AddressInputs
      [] OTHER -> Inputs

(***************************************************************************)
(* Level 0 and Level 1: parse and detect                                   *)
(***************************************************************************)
Has(obj, key) == key \in DOMAIN obj
When(cond, seq) == IF cond THEN seq ELSE <<>>

\* JSON.parse on the sample texts: it throws a SyntaxError on text that is
\* not JSON, and yields a non-object for the texts 42, null and [1,2].
JSONparse(in) ==
    CASE in.text \in {"", "{not valid json"} -> [threw |-> TRUE, isObject |-> FALSE, value |-> EmptyObject]
      [] in.text \in {"42", "null", "[1,2]"} -> [threw |-> FALSE, isObject |-> FALSE, value |-> EmptyObject]
      [] OTHER -> [threw |-> FALSE, isObject |-> TRUE, value |-> in.value]

\* parseInput: JSON.parse if string (inside try/catch), then the type check
\* "must be object".  Returns {error} or {value}.
parseInput(in) ==
    LET j == IF in.kind = "string" THEN JSONparse(in)
             ELSE [threw |-> FALSE, isObject |-> in.kind = "object", value |-> in.value]
    IN  IF j.threw
        THEN [error |-> <<Error("INVALID_JSON", TopPath("$"))>>, value |-> EmptyObject]
        ELSE IF ~j.isObject
        THEN [error |-> <<Error("NOT_OBJECT", TopPath("$"))>>, value |-> EmptyObject]
        ELSE [error |-> <<>>, value |-> j.value]

\* The mutant of detect for C10: the root-level flat fields are tested first.
detect_flatFirst(obj) ==
    IF Has(obj, "payTo") \/ Has(obj, "amount") THEN "flat-legacy"
    ELSE IF Has(obj, "accepts")
         THEN IF Has(obj, "x402Version") /\ obj.x402Version = 2 /\ Has(obj, "resource")
              THEN "v2" ELSE "v1"
         ELSE "unknown"

\* detect: has `accepts`? -> has `x402Version: 2` + `resource`? -> v2,
\* otherwise v1.  No `accepts`? -> has root-level payTo/amount? ->
\* flat-legacy, otherwise unknown.
detect(obj) ==
    IF Has(obj, "accepts")
    THEN IF Has(obj, "x402Version") /\ obj.x402Version = 2 /\ Has(obj, "resource")
         THEN "v2" ELSE "v1"
    ELSE IF Has(obj, "payTo") \/ Has(obj, "amount") THEN "flat-legacy"
    ELSE "unknown"

unknownFormatError == Error("UNKNOWN_FORMAT", TopPath("$"))

\* earlyResult: the single fatal error, nothing normalized.
earlyResult(error) ==
    [valid |-> FALSE, version |-> "unknown", errors |-> <<error>>, warnings |-> <<>>,
     normalized |-> <<>>]

(***************************************************************************)
(* Level 2: normalize                                                      *)
(***************************************************************************)
EntryKeys == {"scheme", "network", "amount", "asset", "payTo", "maxTimeoutSeconds", "extra"}
ConfigKeys == {"x402Version", "resource", "accepts", "extensions"}

Restrict(obj, keys) == [k \in (DOMAIN obj) \cap keys |-> obj[k]]

\* v1 -> v2 entry: `maxAmountRequired` becomes `amount`.
normalizeEntry(e) ==
    IF Has(e, "maxAmountRequired") /\ ~Has(e, "amount")
    THEN [k \in ((DOMAIN e) \ {"maxAmountRequired"}) \cup {"amount"} |->
             IF k = "amount" THEN e.maxAmountRequired ELSE e[k]]
    ELSE e

\* The legacy-format warning of the normalizer (validateLegacy in the tests).
validateLegacy(fmt) ==
    CASE fmt = "flat-legacy" ->
            <<Warning("LEGACY_FORMAT", TopPath("$"), <<"Wrap payment fields in an accepts[] array">>)>>
      [] fmt = "v1" ->
            <<Warning("LEGACY_FORMAT", TopPath("$"), <<"Use amount instead of maxAmountRequired">>)>>
      [] OTHER -> <<>>

\* The entry built from a flat document: its root-level payment fields, the
\* root-level `currency` carried as the entry's `asset`.
flatEntry(obj) ==
    IF Has(obj, "currency") /\ ~Has(obj, "asset")
    THEN Restrict(obj, EntryKeys) @@ [asset |-> obj.currency]
    ELSE Restrict(obj, EntryKeys)

\* The entry names its network by a simple chain name of SIMPLE_NAME_MAP.
IsSimpleName(e) == Has(e, "network") /\ e.network \in DOMAIN registry.SIMPLE_NAME_MAP

\* Simple chain name -> CAIP-2 identifier: `network: "base"` becomes
\* `network: "eip155:8453"`; any other network value is left as it is.
mapNetwork(e) ==
    IF IsSimpleName(e)
    THEN [e EXCEPT !.network = registry.SIMPLE_NAME_MAP[e.network]]
    ELSE e

\* The mutant of simpleChainName for C24: the simple name is reported as an
\* error.
simpleChainName_asError(e, path) ==
    When(IsSimpleName(e),
         <<Issue("SIMPLE_CHAIN_NAME", FieldPath(path, "network"), "error",
                 registry.SIMPLE_NAME_MAP[e.network])>>)

\* The SIMPLE_CHAIN_NAME warning of the normalizer for one entry; its fix
\* names the CAIP-2 identifier ("Use 'eip155:8453' instead of 'base'").
simpleChainName(e, path) ==
    When(IsSimpleName(e),
         <<Warning("SIMPLE_CHAIN_NAME", FieldPath(path, "network"),
                   registry.SIMPLE_NAME_MAP[e.network])>>)

\* The SIMPLE_CHAIN_NAME warnings of a list of entries, in list order.
RECURSIVE simpleChainNames(_, _)
simpleChainNames(entries, k) ==
    IF k > Len(entries) THEN <<>>
    ELSE simpleChainName(entries[k], EntryPath(k - 1)) \o simpleChainNames(entries, k + 1)

\* The entries of a recognized document before the network mapping: the one
\* entry of a flat document, the renamed entries of a v1 config, the entries
\* of a v2 config.
convertedEntries(obj, fmt) ==
    CASE fmt = "flat-legacy" -> <<flatEntry(obj)>>
      [] fmt = "v1" -> [k \in 1..Len(obj.accepts) |-> normalizeEntry(obj.accepts[k])]
      [] fmt = "v2" -> obj.accepts
      [] OTHER -> <<>>

\* normalize(parsed, format) -> {normalized, warnings}: any recognized format
\* to the canonical v2 shape, always with x402Version: 2; `resource` and
\* `extensions` are carried over when the input has them, and a simple chain
\* name is mapped to its CAIP-2 identifier with a SIMPLE_CHAIN_NAME warning.
normalizeConfig(obj, fmt) ==
    LET top == [x402Version |-> 2] @@ Restrict(obj, {"resource", "extensions"})
        entries == convertedEntries(obj, fmt)
        cfg == IF fmt \in {"flat-legacy", "v1", "v2"}
               THEN top @@ [accepts |-> [k \in 1..Len(entries) |-> mapNetwork(entries[k])]]
               ELSE top
    IN  [normalized |-> cfg, warnings |-> validateLegacy(fmt) \o simpleChainNames(entries, 1)]

(***************************************************************************)
(* Level 3: structure rules                                                *)
(***************************************************************************)
\* /^https?:\/\// on the sample resource URLs.
IsUrl(url) == url = "https://example.com"

validateStructure(config, fmt) ==
    When(~Has(config, "x402Version"), <<Error("MISSING_VERSION", TopPath("x402Version"))>>)
    \o When(Has(config, "x402Version") /\ config.x402Version \notin {1, 2},
            <<Error("INVALID_VERSION", TopPath("x402Version"))>>)
    \o When(~Has(config, "accepts"), <<Error("MISSING_ACCEPTS", TopPath("accepts"))>>)
    \o When(Has(config, "accepts") /\ Len(config.accepts) = 0,
            <<Error("EMPTY_ACCEPTS", TopPath("accepts"))>>)
    \o When(Has(config, "resource") /\ ~IsUrl(config.resource.url),
            <<Warning("INVALID_RESOURCE_URL", TopPath("resource.url"), <<>>)>>)

(***************************************************************************)
(* Level 4 and 5: per-entry rules, (entry, path) -> issues                 *)
(***************************************************************************)
\* The mutant of validateRequirements for C26: a timeout of zero passes.
validateRequirements_zeroTimeout(entry, path, fmt) ==
    When(~Has(entry, "scheme"), <<Error("MISSING_SCHEME", FieldPath(path, "scheme"))>>)
    \o When(~Has(entry, "network"), <<Error("MISSING_NETWORK", FieldPath(path, "network"))>>)
    \o When(~Has(entry, "amount"), <<Error("MISSING_AMOUNT", FieldPath(path, "amount"))>>)
    \o When(~Has(entry, "asset"), <<Error("MISSING_ASSET", FieldPath(path, "asset"))>>)
    \o When(~Has(entry, "payTo"), <<Error("MISSING_PAY_TO", FieldPath(path, "payTo"))>>)
    \o When(Has(entry, "maxTimeoutSeconds") /\ entry.maxTimeoutSeconds < 0,
            <<Error("INVALID_TIMEOUT", FieldPath(path, "maxTimeoutSeconds"))>>)

validateRequirements(entry, path, fmt) ==
    When(~Has(entry, "scheme"), <<Error("MISSING_SCHEME", FieldPath(path, "scheme"))>>)
    \o When(~Has(entry, "network"), <<Error("MISSING_NETWORK", FieldPath(path, "network"))>>)
    \o When(~Has(entry, "amount"), <<Error("MISSING_AMOUNT", FieldPath(path, "amount"))>>)
    \o When(~Has(entry, "asset"), <<Error("MISSING_ASSET", FieldPath(path, "asset"))>>)
    \o When(~Has(entry, "payTo"), <<Error("MISSING_PAY_TO", FieldPath(path, "payTo"))>>)
    \o When(Has(entry, "maxTimeoutSeconds") /\ entry.maxTimeoutSeconds <= 0,
            <<Error("INVALID_TIMEOUT", FieldPath(path, "maxTimeoutSeconds"))>>)

\* rules/network.ts: a simple chain name that reaches the rule unmapped is
\* the alias warning; a known network has no issue (the registered
\* `eip155:8453` passes, as the tests show, although the printed pattern
\* does not match it); any other value goes through the CAIP-2 format check
\* and is the format error when it fails, the unknown-network warning when
\* it passes.
validateNetwork(entry, path) ==
    IF ~Has(entry, "network") THEN <<>>
    ELSE IF IsSimpleName(entry) THEN simpleChainName(entry, path)
    ELSE IF entry.network \in DOMAIN registry.NETWORKS THEN <<>>
    ELSE IF ~IsCaip2(entry.network)
         THEN <<Error("INVALID_NETWORK_FORMAT", FieldPath(path, "network"))>>
    ELSE <<Warning("UNKNOWN_NETWORK", FieldPath(path, "network"), <<>>)>>

\* Checksummed-hex family: length/prefix, then the EIP-55 comparison; an
\* address whose letters are all of one case carries no checksum.
validateEvmAddress(address, field) ==
    IF ~IsHexAddress(address) THEN <<Error("INVALID_EVM_ADDRESS", field)>>
    ELSE IF isValidChecksumAddress(address) THEN <<>>
    ELSE IF Hex40(address) = ToLowerCase(Hex40(address))
              \/ Hex40(address) = ToUpperCase(Hex40(address))
         THEN <<Warning("NO_EVM_CHECKSUM", field, toChecksumAddress(address))>>
    ELSE <<Issue("BAD_EVM_CHECKSUM", field, "error", toChecksumAddress(address))>>

\* Raw-public-key family: decode (the decoder's exception is caught and
\* reported as an issue), then require exactly 32 bytes.
validateSolanaAddress(address, field) ==
    LET d == base58Decode(address)
    IN  IF d.threw THEN <<Error("INVALID_SOLANA_ADDRESS", field)>>
        ELSE IF Len(d.bytes) # 32 THEN <<Error("INVALID_SOLANA_ADDRESS", field)>>
        ELSE <<Warning("NO_CHECKSUM_AVAILABLE", field, <<>>)>>

\* The mutant of validateAddressForNetwork for C27: every family is sent to
\* the EVM rule.
validateAddressForNetwork_allEvm(address, field, networkType) ==
    CASE networkType \in {"evm", "solana"} -> validateEvmAddress(address, field)
      [] OTHER -> <<>>

\* rules/address.ts: the dispatch on the network's address family.
validateAddressForNetwork(address, field, networkType) ==
    CASE networkType = "evm" -> validateEvmAddress(address, field)
      [] networkType = "solana" -> validateSolanaAddress(address, field)
      [] OTHER -> <<>>

validateAddress(entry, path) ==
    IF ~Has(entry, "payTo") \/ ~Has(entry, "network") THEN <<>>
    ELSE validateAddressForNetwork(entry.payTo, FieldPath(path, "payTo"),
             IF IsSimpleName(entry)
             THEN NamespaceFamily(registry.SIMPLE_NAME_MAP[entry.network])
             ELSE NamespaceFamily(entry.network))

\* The decimals of the assets the registry knows.
KnownDecimals == [a \in {USDC_BASE, SYM_USDC} |-> 6]

IsDigits(text) == Len(text) > 0 /\ \A k \in DOMAIN text : text[k] \in DecimalDigits

\* The position of the decimal point, 0 when there is none.
PointAt(text) ==
    IF \E k \in DOMAIN text : text[k] = "."
    THEN CHOOSE k \in DOMAIN text : text[k] = "." /\ \A j \in 1..(k - 1) : text[j] # "."
    ELSE 0

\* digits, or digits '.' digits
IsPlainDecimal(text) ==
    IF PointAt(text) = 0 THEN IsDigits(text)
    ELSE /\ IsDigits(SubSeq(text, 1, PointAt(text) - 1))
         /\ IsDigits(SubSeq(text, PointAt(text) + 1, Len(text)))

IsExponential(text) == \E k \in DOMAIN text : text[k] \in {"e", "E"}
IsNegative(text) == Len(text) > 0 /\ text[1] = "-"
IsZeroAmount(text) == \A k \in DOMAIN text : text[k] \in {"0", "."}
FractionDigits(text) == IF PointAt(text) = 0 THEN 0 ELSE Len(text) - PointAt(text)

\* The mutant of validateAmount for C25: only string amounts are checked.
validateAmount_stringOnly(entry, path) ==
    IF ~Has(entry, "amount") THEN <<>>
    ELSE IF AmountLiteral(entry.amount).type = "number" THEN <<>>
    ELSE LET text == AmountLiteral(entry.amount).text
         IN  IF IsExponential(text) \/ IsNegative(text) \/ ~IsPlainDecimal(text)
                   \/ IsZeroAmount(text)
             THEN <<Error("INVALID_AMOUNT", FieldPath(path, "amount"))>>
             ELSE IF Has(entry, "asset") /\ entry.asset \in DOMAIN KnownDecimals
                       /\ FractionDigits(text) > KnownDecimals[entry.asset]
             THEN <<Warning("AMOUNT_PRECISION", FieldPath(path, "amount"), <<>>)>>
             ELSE <<>>

\* rules/amount.ts: a string or a number; exponential notation, a sign, any
\* other text that is not a plain decimal, and zero are errors; more fraction
\* digits than the asset's known decimals is a warning.
validateAmount(entry, path) ==
    IF ~Has(entry, "amount") THEN <<>>
    ELSE LET text == AmountLiteral(entry.amount).text
         IN  IF IsExponential(text) \/ IsNegative(text) \/ ~IsPlainDecimal(text)
                   \/ IsZeroAmount(text)
             THEN <<Error("INVALID_AMOUNT", FieldPath(path, "amount"))>>
             ELSE IF Has(entry, "asset") /\ entry.asset \in DOMAIN KnownDecimals
                       /\ FractionDigits(text) > KnownDecimals[entry.asset]
             THEN <<Warning("AMOUNT_PRECISION", FieldPath(path, "amount"), <<>>)>>
             ELSE <<>>

(***************************************************************************)
(* validate(input, options): the pipeline, one action per level            *)
(***************************************************************************)
Ran(stage, idx, found) == [stage |-> stage, index |-> idx, issues |-> found]

\* Where a finished result goes: through the strict-mode post-process when
\* options.strict is set, else back to the caller.
ReturnPc == IF strict THEN "strict" ELSE "done"

Init ==
    /\ op \in {"validate", "detect", "normalize", "cli", "rules",
               "base58Decode", "base58DecodeSteps", "toChecksumAddress", "validateAddressForNetwork"}
    /\ input \in InputsOf(op)
    /\ strict \in (IF op = "validate" THEN BOOLEAN ELSE {FALSE})
    /\ pc = "start"
    /\ parsed = <<>>
    /\ format = ""
    /\ normalized = <<>>
    /\ issues = <<>>
    /\ i = 0
    /\ log = <<>>
    /\ result = <<>>
    /\ prev = <<>>
    /\ registry = StartupRegistry
    /\ calls = <<>>

\* The mutant of Level0_Parse for C3: JSON.parse is called on the string
\* with no try/catch around it.
Level0_Parse_uncaught ==
    /\ pc = "start" /\ op = "validate"
    /\ IF input.kind = "string" /\ JSONparse(input).threw
       THEN /\ pc' = "threw"
            /\ UNCHANGED <<parsed, result>>
       ELSE LET p == parseInput(input)
            IN  IF p.error # <<>>
                THEN /\ result' = <<earlyResult(p.error[1])>>
                     /\ pc' = ReturnPc
                     /\ parsed' = parsed
                ELSE /\ parsed' = <<p.value>>
                     /\ pc' = "detect"
                     /\ result' = result
    /\ UNCHANGED <<registry, calls, op, input, strict, format, normalized, issues, i, log, prev>>

\* Level 0: Parse.  `if (parsed.error) return earlyResult(parsed.error)`.
Level0_Parse ==
    /\ pc = "start" /\ op = "validate"
    /\ LET p == parseInput(input)
       IN  IF p.error # <<>>
           THEN /\ result' = <<earlyResult(p.error[1])>>
                /\ pc' = ReturnPc
                /\ parsed' = parsed
           ELSE /\ parsed' = <<p.value>>
                /\ pc' = "detect"
                /\ result' = result
    /\ UNCHANGED <<registry, calls, op, input, strict, format, normalized, issues, i, log, prev>>

\* The mutant of Level1_Detect for C4: the unknown-format error is pushed
\* onto the issues and the pipeline goes on.
Level1_Detect_noEarlyExit ==
    /\ pc = "detect"
    /\ LET f == detect(parsed[1])
       IN  /\ format' = f
           /\ issues' = IF f = "unknown" THEN issues \o <<unknownFormatError>> ELSE issues
    /\ pc' = "normalize"
    /\ UNCHANGED <<registry, calls, op, input, strict, parsed, normalized, i, log, result, prev>>

\* Level 1: Detect.  `if (format === 'unknown') return earlyResult(...)`.
Level1_Detect ==
    /\ pc = "detect"
    /\ LET f == detect(parsed[1])
       IN  IF f = "unknown"
           THEN /\ result' = <<earlyResult(unknownFormatError)>>
                /\ pc' = ReturnPc
                /\ format' = format
           ELSE /\ format' = f
                /\ pc' = "normalize"
                /\ result' = result
    /\ UNCHANGED <<registry, calls, op, input, strict, parsed, normalized, issues, i, log, prev>>

\* The mutant of Level2_Normalize for C14: the normalizer's warnings are not
\* pushed onto the issue list.
Level2_Normalize_dropWarnings ==
    /\ pc = "normalize"
    /\ LET n == normalizeConfig(parsed[1], format)
       IN  /\ normalized' = <<n.normalized>>
           /\ issues' = issues
           /\ log' = Append(log, Ran("normalize", -1, n.warnings))
    /\ pc' = "structure"
    /\ UNCHANGED <<registry, calls, op, input, strict, parsed, format, i, result, prev>>

\* The mutant of Level2_Normalize for C13: the caller's object is converted
\* in place.
Level2_Normalize_inPlace ==
    /\ pc = "normalize"
    /\ LET n == normalizeConfig(parsed[1], format)
       IN  /\ normalized' = <<n.normalized>>
           /\ input' = [input EXCEPT !.value = n.normalized]
           /\ issues' = issues \o n.warnings
           /\ log' = Append(log, Ran("normalize", -1, n.warnings))
    /\ pc' = "structure"
    /\ UNCHANGED <<registry, calls, op, strict, parsed, format, i, result, prev>>

\* Level 2: Normalize, `issues.push(...normWarnings)`.
Level2_Normalize ==
    /\ pc = "normalize"
    /\ LET n == normalizeConfig(parsed[1], format)
       IN  /\ normalized' = <<n.normalized>>
           /\ issues' = issues \o n.warnings
           /\ log' = Append(log, Ran("normalize", -1, n.warnings))
    /\ pc' = "structure"
    /\ UNCHANGED <<registry, calls, op, input, strict, parsed, format, i, result, prev>>

\* The mutant of Level3_Structure for C15: the structure rules run but their
\* issues are not pushed onto the issue list.
Level3_Structure_notPushed ==
    /\ pc = "structure"
    /\ LET found == validateStructure(normalized[1], format)
       IN  /\ issues' = issues
           /\ log' = Append(log, Ran("structure", -1, found))
    /\ i' = 0
    /\ pc' = "entries"
    /\ UNCHANGED <<registry, calls, op, input, strict, parsed, format, normalized, result, prev>>

\* Level 3: Structure, `issues.push(...validateStructure(normalized, format))`.
Level3_Structure ==
    /\ pc = "structure"
    /\ LET found == validateStructure(normalized[1], format)
       IN  /\ issues' = issues \o found
           /\ log' = Append(log, Ran("structure", -1, found))
    /\ i' = 0
    /\ pc' = "entries"
    /\ UNCHANGED <<registry, calls, op, input, strict, parsed, format, normalized, result, prev>>

\* Whether the for loop over normalized.accepts has an iteration left.
LoopCondition ==
    /\ Has(normalized[1], "accepts")
    /\ i < Len(normalized[1].accepts)

\* The mutant of Level45_Entry for C7: within an entry, the rules after the
\* first one that reports an error are not run.
Level45_Entry_shortCircuit ==
    /\ pc = "entries"
    /\ LoopCondition
    /\ LET entry == normalized[1].accepts[i + 1]
           path == EntryPath(i)
           req == validateRequirements(entry, path, format)
           net == validateNetwork(entry, path)
           adr == validateAddress(entry, path)
           amt == validateAmount(entry, path)
           run == IF Filter(req, "error") # <<>>
                      THEN <<Ran("requirements", i, req)>>
                  ELSE IF Filter(net, "error") # <<>>
                      THEN <<Ran("requirements", i, req), Ran("network", i, net)>>
                  ELSE IF Filter(adr, "error") # <<>>
                      THEN <<Ran("requirements", i, req), Ran("network", i, net),
                             Ran("address", i, adr)>>
                  ELSE <<Ran("requirements", i, req), Ran("network", i, net),
                         Ran("address", i, adr), Ran("amount", i, amt)>>
       IN  /\ issues' = issues \o IF Len(run) = 1 THEN run[1].issues
                                  ELSE IF Len(run) = 2 THEN run[1].issues \o run[2].issues
                                  ELSE IF Len(run) = 3
                                       THEN run[1].issues \o run[2].issues \o run[3].issues
                                  ELSE run[1].issues \o run[2].issues \o run[3].issues
                                       \o run[4].issues
           /\ log' = log \o run
    /\ i' = i + 1
    /\ UNCHANGED <<registry, calls, op, input, strict, pc, parsed, format, normalized, result, prev>>

\* The mutant of Level45_Entry for C8: the entry's issues are put at the
\* front of the issues array (unshift for push).
Level45_Entry_unshift ==
    /\ pc = "entries"
    /\ LoopCondition
    /\ LET entry == normalized[1].accepts[i + 1]
           path == EntryPath(i)
           req == validateRequirements(entry, path, format)
           net == validateNetwork(entry, path)
           adr == validateAddress(entry, path)
           amt == validateAmount(entry, path)
       IN  /\ issues' = req \o net \o adr \o amt \o issues
           /\ log' = log \o <<Ran("requirements", i, req), Ran("network", i, net),
                              Ran("address", i, adr), Ran("amount", i, amt)>>
    /\ i' = i + 1
    /\ UNCHANGED <<registry, calls, op, input, strict, pc, parsed, format, normalized, result, prev>>

\* Level 4+5: one iteration of the loop, entry i under path `accepts[${i}]`.
Level45_Entry ==
    /\ pc = "entries"
    /\ LoopCondition
    /\ LET entry == normalized[1].accepts[i + 1]
           path == EntryPath(i)
           req == validateRequirements(entry, path, format)
           net == validateNetwork(entry, path)
           adr == validateAddress(entry, path)
           amt == validateAmount(entry, path)
       IN  IF Exception \in {req, net, adr, amt}
           THEN /\ pc' = "threw"
                /\ UNCHANGED <<issues, log, i>>
           ELSE /\ issues' = issues \o req \o net \o adr \o amt
                /\ log' = log \o <<Ran("requirements", i, req), Ran("network", i, net),
                                   Ran("address", i, adr), Ran("amount", i, amt)>>
                /\ i' = i + 1
                /\ pc' = pc
    /\ UNCHANGED <<registry, calls, op, input, strict, parsed, format, normalized, result, prev>>

\* The mutant of Aggregate for C5: the normalized config is returned only
\* with a valid result.
Aggregate_nullWhenInvalid ==
    /\ pc = "entries"
    /\ ~LoopCondition
    /\ result' = <<[valid |-> Len(Filter(issues, "error")) = 0,
                    version |-> format,
                    errors |-> Filter(issues, "error"),
                    warnings |-> Filter(issues, "warning"),
                    normalized |-> IF Len(Filter(issues, "error")) = 0
                                   THEN normalized ELSE <<>>]>>
    /\ pc' = ReturnPc
    /\ UNCHANGED <<registry, calls, op, input, strict, parsed, format, normalized, issues, i, log, prev>>

\* Aggregate: split the issues by severity, valid iff no error.
Aggregate ==
    /\ pc = "entries"
    /\ ~LoopCondition
    /\ result' = <<[valid |-> Len(Filter(issues, "error")) = 0,
                    version |-> format,
                    errors |-> Filter(issues, "error"),
                    warnings |-> Filter(issues, "warning"),
                    normalized |-> normalized]>>
    /\ pc' = ReturnPc
    /\ UNCHANGED <<registry, calls, op, input, strict, parsed, format, normalized, issues, i, log, prev>>

\* Warnings reclassified as errors.
Promote(ws) == [k \in 1..Len(ws) |-> [ws[k] EXCEPT !.severity = "error"]]

\* The mutant of applyStrict for C1: the warnings are moved and valid is
\* left as it was.
applyStrict_keepValid(r) ==
    [valid |-> r.valid,
     version |-> r.version,
     errors |-> r.errors \o Promote(r.warnings),
     warnings |-> <<>>,
     normalized |-> r.normalized]

\* The mutant of applyStrict for C2: the warnings are cleared, not moved.
applyStrict_dropWarnings(r) ==
    [valid |-> r.valid /\ Len(r.warnings) = 0,
     version |-> r.version,
     errors |-> r.errors,
     warnings |-> <<>>,
     normalized |-> r.normalized]

\* Strict mode: post-process the result, move all warnings to errors and
\* set valid = false if any existed.
applyStrict(r) ==
    [valid |-> r.valid /\ Len(r.warnings) = 0,
     version |-> r.version,
     errors |-> r.errors \o Promote(r.warnings),
     warnings |-> <<>>,
     normalized |-> r.normalized]

StrictMode ==
    /\ pc = "strict"
    /\ result' = <<applyStrict(result[1])>>
    /\ pc' = "done"
    /\ UNCHANGED <<registry, calls, op, input, strict, parsed, format, normalized, issues, i, log, prev>>

\* The client validates the same input again with --strict (the CLI's
\* strict test runs the config once normally, once strictly).
Revalidate ==
    /\ pc = "done" /\ op = "validate" /\ ~strict /\ prev = <<>>
    /\ prev' = result
    /\ strict' = TRUE
    /\ pc' = "start"
    /\ parsed' = <<>>
    /\ format' = ""
    /\ normalized' = <<>>
    /\ issues' = <<>>
    /\ i' = 0
    /\ log' = <<>>
    /\ result' = <<>>
    /\ UNCHANGED <<registry, calls, op, input>>

(***************************************************************************)
(* The pipeline as a function of a call's locals                           *)
(***************************************************************************)
\* The locals of a call that has not started.
NewCall(fn, in, opt) ==
    [op |-> fn, input |-> in, strict |-> opt, pc |-> "start", parsed |-> <<>>,
     format |-> "", normalized |-> <<>>, issues |-> <<>>, i |-> 0, result |-> <<>>]

\* `return result`, through the strict-mode post-process when asked for.
Returned(s, r) ==
    [s EXCEPT !.result = <<r>>, !.pc = IF s.strict THEN "strict" ELSE "done"]

\* Level 0 on the locals of a call.
ParseStep(s) ==
    LET p == parseInput(s.input)
    IN  IF p.error # <<>> THEN Returned(s, earlyResult(p.error[1]))
        ELSE [s EXCEPT !.parsed = <<p.value>>, !.pc = "detect"]

\* Level 1 on the locals of a call.
DetectStep(s) ==
    LET f == detect(s.parsed[1])
    IN  IF f = "unknown" THEN Returned(s, earlyResult(unknownFormatError))
        ELSE [s EXCEPT !.format = f, !.pc = "normalize"]

\* Level 2 on the locals of a call.
NormalizeStep(s) ==
    LET n == normalizeConfig(s.parsed[1], s.format)
    IN  [s EXCEPT !.normalized = <<n.normalized>>, !.issues = @ \o n.warnings,
                  !.pc = "structure"]

\* Level 3 on the locals of a call.
StructureStep(s) ==
    [s EXCEPT !.issues = @ \o validateStructure(s.normalized[1], s.format),
              !.i = 0, !.pc = "entries"]

\* The issues of one iteration of the loop of levels 4 and 5.
EntryIssues(s) ==
    LET entry == s.normalized[1].accepts[s.i + 1]
        path == EntryPath(s.i)
    IN  validateRequirements(entry, path, s.format) \o validateNetwork(entry, path)
        \o validateAddress(entry, path) \o validateAmount(entry, path)

\* The loop condition on the locals of a call.
HasEntryLeft(s) == Has(s.normalized[1], "accepts") /\ s.i < Len(s.normalized[1].accepts)

\* Level 4+5, one iteration, on the locals of a call.
EntryStep(s) == [s EXCEPT !.issues = @ \o EntryIssues(s), !.i = @ + 1]

\* Aggregate on the locals of a call.
AggregateStep(s) ==
    Returned(s, [valid |-> Len(Filter(s.issues, "error")) = 0,
                 version |-> s.format,
                 errors |-> Filter(s.issues, "error"),
                 warnings |-> Filter(s.issues, "warning"),
                 normalized |-> s.normalized])

\* The strict-mode post-process on the locals of a call.
StrictStep(s) == [s EXCEPT !.result = <<applyStrict(s.result[1])>>, !.pc = "done"]

\* detect(input) and normalize(input) as calls of one step.
DetectCall(s) ==
    LET p == parseInput(s.input)
    IN  [s EXCEPT !.result = <<IF p.error # <<>> THEN "unknown" ELSE detect(p.value)>>,
                  !.pc = "done"]
NormalizeCall(s) ==
    LET p == parseInput(s.input)
    IN  [s EXCEPT !.result = <<IF p.error # <<>> \/ detect(p.value) = "unknown" THEN <<>>
                               ELSE <<normalizeConfig(p.value, detect(p.value)).normalized>> >>,
                  !.pc = "done"]

\* The next step of a call, by its function and position.
StepOf(s) ==
    CASE s.op = "detect" -> DetectCall(s)
      [] s.op = "normalize" -> NormalizeCall(s)
      [] s.op = "validate" /\ s.pc = "start" -> ParseStep(s)
      [] s.op = "validate" /\ s.pc = "detect" -> DetectStep(s)
      [] s.op = "validate" /\ s.pc = "normalize" -> NormalizeStep(s)
      [] s.op = "validate" /\ s.pc = "structure" -> StructureStep(s)
      [] s.op = "validate" /\ s.pc = "entries" ->
            IF HasEntryLeft(s) THEN EntryStep(s) ELSE AggregateStep(s)
      [] s.op = "validate" /\ s.pc = "strict" -> StrictStep(s)

RECURSIVE RunAlone(_)
\* A call run from its locals to its return with no other call in between.
RunAlone(s) == IF s.pc = "done" THEN s ELSE RunAlone(StepOf(s))

(***************************************************************************)
(* detect(input) and normalize(input): the other two public functions      *)
(***************************************************************************)
CallDetect ==
    /\ pc = "start" /\ op = "detect"
    /\ LET p == parseInput(input)
       IN  result' = <<IF p.error # <<>> THEN "unknown" ELSE detect(p.value)>>
    /\ pc' = "done"
    /\ UNCHANGED <<registry, calls, op, input, strict, parsed, format, normalized, issues, i, log, prev>>

\* The mutant of CallNormalize for C11: a previous-format config is passed
\* through like a current one, its entries not converted.
CallNormalize_passThrough ==
    /\ pc = "start" /\ op = "normalize"
    /\ LET p == parseInput(input)
       IN  result' = <<IF p.error # <<>> \/ detect(p.value) = "unknown" THEN <<>>
                       ELSE <<normalizeConfig(p.value,
                                  IF detect(p.value) = "v1" THEN "v2" ELSE detect(p.value)).normalized>> >>
    /\ pc' = "done"
    /\ UNCHANGED <<registry, calls, op, input, strict, parsed, format, normalized, issues, i, log, prev>>

\* normalize(input) -> NormalizedConfig | null.
CallNormalize ==
    /\ pc = "start" /\ op = "normalize"
    /\ LET p == parseInput(input)
       IN  result' = <<IF p.error # <<>> \/ detect(p.value) = "unknown" THEN <<>>
                       ELSE <<normalizeConfig(p.value, detect(p.value)).normalized>> >>
    /\ pc' = "done"
    /\ UNCHANGED <<registry, calls, op, input, strict, parsed, format, normalized, issues, i, log, prev>>

(***************************************************************************)
(* The vendored functions and the address dispatch, called on their own    *)
(***************************************************************************)
CallBase58Decode ==
    /\ pc = "start" /\ op = "base58Decode"
    /\ result' = <<base58Decode(input.str)>>
    /\ pc' = "done"
    /\ UNCHANGED <<registry, calls, op, input, strict, parsed, format, normalized, issues, i, log, prev>>

(***************************************************************************)
(* base58Decode, one loop iteration at a time. The locals of the call are  *)
(* calls[1]; indices are the code's (from 0), b256[j] is b256[j + 1] here. *)
(***************************************************************************)
Decoding(at) == op = "base58DecodeSteps" /\ pc = "running" /\ calls[1].at = at
DecodeFrame == UNCHANGED <<registry, op, input, strict, parsed, format, normalized, issues, i, log, prev>>

\* The call, the lookup table and `let zeros = 0`.
DecodeBegin ==
    /\ pc = "start" /\ op = "base58DecodeSteps"
    /\ calls' = <<[str |-> input.str, zeros |-> 0, i |-> 0, size |-> 0, b256 |-> <<>>,
                   j |-> 0, carry |-> 0, start |-> 0, at |-> "zeros"]>>
    /\ pc' = "running"
    /\ UNCHANGED result
    /\ DecodeFrame

\* for (let i = 0; i < str.length && str[i] === '1'; i++) zeros++;
DecodeCountZeros ==
    /\ Decoding("zeros")
    /\ LET d == calls[1]
       IN  IF d.i < Len(d.str) /\ d.str[d.i + 1] = "1"
           THEN calls' = <<[d EXCEPT !.zeros = @ + 1, !.i = @ + 1]>>
           ELSE calls' = <<[d EXCEPT !.at = "alloc"]>>
    /\ UNCHANGED <<pc, result>>
    /\ DecodeFrame

\* const size = ...; const b256 = new Uint8Array(size); then i = zeros.
DecodeAlloc ==
    /\ Decoding("alloc")
    /\ LET d == calls[1]
       IN  calls' = <<[d EXCEPT !.size = BufferSize(d.str),
                                !.b256 = Zeros(BufferSize(d.str)),
                                !.i = d.zeros, !.at = "outer"]>>
    /\ UNCHANGED <<pc, result>>
    /\ DecodeFrame

\* The head of the outer loop: its test, the character test (the throw),
\* `let carry = map[ch]` and the start of the inner loop, or `let start = 0`.
DecodeOuter ==
    /\ Decoding("outer")
    /\ LET d == calls[1]
       IN  IF d.i < Len(d.str)
           THEN IF IsNonAscii(d.str[d.i + 1]) \/ map(d.str[d.i + 1]) = 255
                THEN /\ calls' = <<[d EXCEPT !.at = "threw"]>>
                     /\ result' = <<[threw |-> TRUE, bytes |-> <<>>]>>
                     /\ pc' = "done"
                ELSE /\ calls' = <<[d EXCEPT !.carry = map(d.str[d.i + 1]),
                                             !.j = d.size - 1, !.at = "inner"]>>
                     /\ UNCHANGED <<pc, result>>
           ELSE /\ calls' = <<[d EXCEPT !.start = 0, !.at = "skip"]>>
                /\ UNCHANGED <<pc, result>>
    /\ DecodeFrame

\* The mutant of DecodeInner for C29: j is not decremented.
DecodeInner_noDecrement ==
    /\ Decoding("inner")
    /\ LET d == calls[1]
       IN  IF d.j >= 0
           THEN calls' = <<[d EXCEPT
                   !.b256[d.j + 1] = (d.carry + 58 * d.b256[d.j + 1]) % 256,
                   !.carry = (d.carry + 58 * d.b256[d.j + 1]) \div 256]>>
           ELSE calls' = <<[d EXCEPT !.i = @ + 1, !.at = "outer"]>>
    /\ UNCHANGED <<pc, result>>
    /\ DecodeFrame

\* One iteration of the inner loop, or its exit and the outer loop's i++.
DecodeInner ==
    /\ Decoding("inner")
    /\ LET d == calls[1]
       IN  IF d.j >= 0
           THEN calls' = <<[d EXCEPT
                   !.b256[d.j + 1] = (d.carry + 58 * d.b256[d.j + 1]) % 256,
                   !.carry = (d.carry + 58 * d.b256[d.j + 1]) \div 256,
                   !.j = @ - 1]>>
           ELSE calls' = <<[d EXCEPT !.i = @ + 1, !.at = "outer"]>>
    /\ UNCHANGED <<pc, result>>
    /\ DecodeFrame

\* while (start < size && b256[start] === 0) start++;
DecodeSkip ==
    /\ Decoding("skip")
    /\ LET d == calls[1]
       IN  IF d.start < d.size /\ d.b256[d.start + 1] = 0
           THEN calls' = <<[d EXCEPT !.start = @ + 1]>>
           ELSE calls' = <<[d EXCEPT !.at = "return"]>>
    /\ UNCHANGED <<pc, result>>
    /\ DecodeFrame

\* The result: `zeros` zero bytes, then b256 from `start` on.
DecodeReturn ==
    /\ Decoding("return")
    /\ LET d == calls[1]
       IN  /\ result' = <<[threw |-> FALSE,
                           bytes |-> Zeros(d.zeros) \o SubSeq(d.b256, d.start + 1, d.size)]>>
           /\ calls' = <<[d EXCEPT !.at = "returned"]>>
    /\ pc' = "done"
    /\ DecodeFrame

CallToChecksumAddress ==
    /\ pc = "start" /\ op = "toChecksumAddress"
    /\ result' = <<toChecksumAddress(input.address)>>
    /\ pc' = "done"
    /\ UNCHANGED <<registry, calls, op, input, strict, parsed, format, normalized, issues, i, log, prev>>

CallValidateAddressForNetwork ==
    /\ pc = "start" /\ op = "validateAddressForNetwork"
    /\ result' = <<validateAddressForNetwork(input.address,
                        FieldPath(EntryPath(0), "payTo"), input.networkType)>>
    /\ pc' = "done"
    /\ UNCHANGED <<registry, calls, op, input, strict, parsed, format, normalized, issues, i, log, prev>>

\* The four per-entry rules called on one entry under `accepts[${index}]`.
CallRules ==
    /\ pc = "start" /\ op = "rules"
    /\ LET path == EntryPath(input.index)
       IN  result' = <<[requirements |-> validateRequirements(input.entry, path, "v2"),
                        network |-> validateNetwork(input.entry, path),
                        address |-> validateAddress(input.entry, path),
                        amount |-> validateAmount(input.entry, path)]>>
    /\ pc' = "done"
    /\ UNCHANGED <<registry, calls, op, input, strict, parsed, format, normalized, issues, i, log, prev>>

(***************************************************************************)
(* The CLI: resolve the input, call validate, print, exit                  *)
(***************************************************************************)
Exit(code, out, err) == [exitCode |-> code, stdout |-> out, stderr |-> err]

\* The mutant of cliMain for C22: --strict is not handed to validate.
cliMain_ignoresStrict(args) ==
    CASE args.flag = "--version" -> Exit(0, <<[kind |-> "version"]>>, <<>>)
      [] args.flag = "--help" -> Exit(0, <<[kind |-> "help"]>>, <<>>)
      [] args.source = "none" -> Exit(2, <<>>, <<"No input provided">>)
      [] args.source = "missing" -> Exit(2, <<>>, <<"File not found">>)
      [] OTHER ->
            LET r == RunAlone(NewCall("validate", args.text, FALSE)).result[1]
            IN  Exit(IF r.valid THEN 0 ELSE 1,
                     IF args.quiet THEN <<>>
                     ELSE IF args.json THEN <<[kind |-> "json", result |-> r]>>
                     ELSE <<[kind |-> "text", valid |-> r.valid]>>,
                     <<>>)

\* The CLI run: --version and --help print and exit 0; no input and a
\* missing file exit 2; otherwise validate(text, {strict}) is called, the
\* verdict printed (nothing under --quiet, the result under --json), and the
\* exit code is 0 for a valid result, 1 for an invalid one.
cliMain(args) ==
    CASE args.flag = "--version" -> Exit(0, <<[kind |-> "version"]>>, <<>>)
      [] args.flag = "--help" -> Exit(0, <<[kind |-> "help"]>>, <<>>)
      [] args.source = "none" -> Exit(2, <<>>, <<"No input provided">>)
      [] args.source = "missing" -> Exit(2, <<>>, <<"File not found">>)
      [] OTHER ->
            LET r == RunAlone(NewCall("validate", args.text, args.strict)).result[1]
            IN  Exit(IF r.valid THEN 0 ELSE 1,
                     IF args.quiet THEN <<>>
                     ELSE IF args.json THEN <<[kind |-> "json", result |-> r]>>
                     ELSE <<[kind |-> "text", valid |-> r.valid]>>,
                     <<>>)

CliRun ==
    /\ pc = "start" /\ op = "cli"
    /\ result' = <<cliMain(input)>>
    /\ pc' = "done"
    /\ UNCHANGED <<registry, calls, op, input, strict, parsed, format, normalized, issues, i, log, prev>>

Next ==
    \/ Level0_Parse
    \/ Level1_Detect
    \/ Level2_Normalize
    \/ Level3_Structure
    \/ Level45_Entry
    \/ Aggregate
    \/ StrictMode
    \/ Revalidate
    \/ CallDetect
    \/ CallNormalize
    \/ CallBase58Decode
    \/ CallToChecksumAddress
    \/ CallValidateAddressForNetwork
    \/ CliRun
    \/ CallRules
    \/ DecodeBegin
    \/ DecodeCountZeros
    \/ DecodeAlloc
    \/ DecodeOuter
    \/ DecodeInner
    \/ DecodeSkip
    \/ DecodeReturn

Spec == Init /\ [][Next]_vars

(***************************************************************************)
(* Concurrent calls: each call runs the same levels on its own locals; the *)
(* registry is the only state they share                                   *)
(***************************************************************************)
\* Number of calls in flight at once.
NumCalls == 2

\* The documents the concurrent calls are made on: a current-format config
\* with issues in both of its entries, a flat one, and text that is not
\* JSON.
ConcurrentInputs ==
    {ObjectInput([x402Version |-> 2, resource |-> RESOURCE_OK,
                  accepts |-> <<E_flipped, E_alias>>]),
     ObjectInput([network |-> NetworkChars("base"), amount |-> "1000000", payTo |-> ADDR_OK,
                  scheme |-> "exact", asset |-> USDC_BASE]),
     StringInput("{not valid json", EmptyObject)}

\* The calls that can be made: function, argument, options.
NewCalls ==
    {NewCall("validate", in, opt) : in \in ConcurrentInputs, opt \in BOOLEAN}
    \cup {NewCall(fn, in, FALSE) : fn \in {"detect", "normalize"}, in \in ConcurrentInputs}

\* The locals of the single-call pipeline, untouched by the concurrent calls.
locals == <<op, input, strict, pc, parsed, format, normalized, issues, i, log, result, prev>>

InitConcurrent ==
    /\ op = "concurrent" /\ input = <<>> /\ strict = FALSE /\ pc = "idle"
    /\ parsed = <<>> /\ format = "" /\ normalized = <<>> /\ issues = <<>>
    /\ i = 0 /\ log = <<>> /\ result = <<>> /\ prev = <<>>
    /\ registry = StartupRegistry
    /\ calls \in [1..NumCalls -> NewCalls]

\* Call c takes the step `next` of function `fn` from position `at`.
Takes(c, fn, at, next) ==
    /\ calls[c].op = fn /\ calls[c].pc = at
    /\ calls' = [calls EXCEPT ![c] = next]
    /\ UNCHANGED <<locals, registry>>

Call_Parse == \E c \in DOMAIN calls : Takes(c, "validate", "start", ParseStep(calls[c]))
Call_Detect == \E c \in DOMAIN calls : Takes(c, "validate", "detect", DetectStep(calls[c]))
Call_Normalize ==
    \E c \in DOMAIN calls : Takes(c, "validate", "normalize", NormalizeStep(calls[c]))
Call_Structure ==
    \E c \in DOMAIN calls : Takes(c, "validate", "structure", StructureStep(calls[c]))

\* The mutant of Call_Entry for C21: the issues array is one array shared by
\* all calls (a validator instance that accumulates state).
Call_Entry_sharedIssues ==
    \E c \in DOMAIN calls :
        /\ calls[c].op = "validate" /\ calls[c].pc = "entries"
        /\ HasEntryLeft(calls[c])
        /\ calls' = [k \in DOMAIN calls |->
                        IF k = c THEN EntryStep(calls[c])
                        ELSE [calls[k] EXCEPT !.issues = @ \o EntryIssues(calls[c])]]
        /\ UNCHANGED <<locals, registry>>

\* One iteration of the entry loop of a call.
Call_Entry ==
    \E c \in DOMAIN calls :
        /\ calls[c].op = "validate" /\ calls[c].pc = "entries"
        /\ HasEntryLeft(calls[c])
        /\ Takes(c, "validate", "entries", EntryStep(calls[c]))

\* The loop of a call is over: aggregate.
Call_Aggregate ==
    \E c \in DOMAIN calls :
        /\ calls[c].op = "validate" /\ calls[c].pc = "entries"
        /\ ~HasEntryLeft(calls[c])
        /\ Takes(c, "validate", "entries", AggregateStep(calls[c]))
Call_Strict == \E c \in DOMAIN calls : Takes(c, "validate", "strict", StrictStep(calls[c]))
Call_DetectFn == \E c \in DOMAIN calls : Takes(c, "detect", "start", DetectCall(calls[c]))
Call_NormalizeFn ==
    \E c \in DOMAIN calls : Takes(c, "normalize", "start", NormalizeCall(calls[c]))

NextConcurrent ==
    \/ Call_Parse
    \/ Call_Detect
    \/ Call_Normalize
    \/ Call_Structure
    \/ Call_Entry
    \/ Call_Aggregate
    \/ Call_Strict
    \/ Call_DetectFn
    \/ Call_NormalizeFn

SpecConcurrent == InitConcurrent /\ [][NextConcurrent]_vars

(***************************************************************************)
(* One call run to its end: a call of validate, detect, normalize or the   *)
(* decoder keeps taking steps while it has one to take.                    *)
(***************************************************************************)
\* The configs of the calls: a current-format config with every entry list
\* of up to MaxEntries entries (a valid one, one failing three rules, one
\* whose address makes the decoder throw), a previous-format one, a flat
\* one and an object of no known format.
FairObjects ==
    {[x402Version |-> 2, resource |-> RESOURCE_OK, accepts |-> l] :
        l \in SeqsUpTo({E_ok, E_multi, E_solbad}, MaxEntries)}
    \cup {[x402Version |-> 1, accepts |-> <<E_v1>>],
          [network |-> NetworkChars("base"), amount |-> "1000000", payTo |-> ADDR_OK,
           scheme |-> "exact", asset |-> USDC_BASE],
          EmptyObject}
FairInputs ==
    {ObjectInput(o) : o \in FairObjects}
    \cup {StringInput("JSON", [x402Version |-> 2, resource |-> RESOURCE_OK,
                               accepts |-> <<E_ok>>])}
    \cup {StringInput(t, EmptyObject) : t \in {"", "{not valid json", "42"}}
    \cup {[kind |-> "other", text |-> "", value |-> EmptyObject]}

InitFair ==
    /\ op \in {"validate", "detect", "normalize", "base58DecodeSteps"}
    /\ input \in (IF op = "base58DecodeSteps" THEN StepInputs ELSE FairInputs)
    /\ strict \in (IF op = "validate" THEN BOOLEAN ELSE {FALSE})
    /\ pc = "start"
    /\ parsed = <<>>
    /\ format = ""
    /\ normalized = <<>>
    /\ issues = <<>>
    /\ i = 0
    /\ log = <<>>
    /\ result = <<>>
    /\ prev = <<>>
    /\ registry = StartupRegistry
    /\ calls = <<>>

NextFair ==
    \/ Level0_Parse
    \/ Level1_Detect
    \/ Level2_Normalize
    \/ Level3_Structure
    \/ Level45_Entry
    \/ Aggregate
    \/ StrictMode
    \/ CallDetect
    \/ CallNormalize
    \/ DecodeBegin
    \/ DecodeCountZeros
    \/ DecodeAlloc
    \/ DecodeOuter
    \/ DecodeInner
    \/ DecodeSkip
    \/ DecodeReturn

\* The program is sequential: a call that has a next step takes it.
FairSpec == InitFair /\ [][NextFair]_vars /\ WF_vars(NextFair)

(***************************************************************************)
(* Properties                                                              *)
(***************************************************************************)
\* A validate call has returned.
Done == pc = "done" /\ op = "validate"

\* The fatal input errors: the input is a string that is not JSON, is not
\* an object (as a string or directly), or is an object that detect
\* classifies as unknown.
FatalInput ==
    \/ input.kind = "other"
    \/ input.kind = "string" /\ input.text # "JSON"
    \/ detect(input.value) = "unknown"

\* An issue without its severity: what was detected, and where.
Detection(x) == [code |-> x.code, field |-> x.field, fix |-> x.fix]

\* C1: on every exit path of validate, strict or not, the returned result
\* has valid = true exactly when its errors list is empty (so warnings alone
\* never make a non-strict result invalid).
C1_ValidIffNoErrors ==
    Done => (result[1].valid <=> Len(result[1].errors) = 0)

\* C1 witness: a non-strict call has returned valid with warnings.
C1_Witness ==
    /\ Done /\ ~strict
    /\ result[1].valid
    /\ Len(result[1].warnings) > 0

\* C2: the strict result of an input, against the non-strict result of the
\* same input: no warnings, the errors are the non-strict errors together
\* with the non-strict warnings (same codes and field paths, none added,
\* none removed), and valid holds only if the non-strict call reported
\* neither an error nor a warning.
C2_StrictIsPostProcess ==
    (Done /\ strict /\ prev # <<>>) =>
        LET s == result[1]
            n == prev[1]
        IN  /\ s.warnings = <<>>
            /\ Len(s.errors) = Len(n.errors) + Len(n.warnings)
            /\ {Detection(x) : x \in Range(s.errors)} =
               {Detection(x) : x \in Range(n.errors) \cup Range(n.warnings)}
            /\ \A k \in 1..Len(n.errors) : s.errors[k] = n.errors[k]
            /\ \A k \in 1..Len(s.errors) : s.errors[k].severity = "error"
            /\ s.valid <=> (Len(n.errors) = 0 /\ Len(n.warnings) = 0)
            /\ s.normalized = n.normalized
            /\ s.version = n.version

\* C2 witness: a config that is valid with warnings has been validated
\* again strictly, and is invalid.
C2_Witness ==
    /\ Done /\ strict /\ prev # <<>>
    /\ prev[1].valid /\ Len(prev[1].warnings) > 0
    /\ ~result[1].valid

\* C3: no exception outcome is reachable, every unfinished call can take
\* its next step, and what validate returns is a ValidationResult.
C3_NeverThrows ==
    /\ pc \in {"start", "detect", "normalize", "structure", "entries", "strict",
              "running", "done"}
    /\ pc # "threw"
    /\ (op = "validate" /\ pc \notin {"entries", "done"}) => ENABLED Next
    /\ pc = "entries" => (ENABLED Aggregate <=> ~LoopCondition)
    /\ Done =>
         /\ DOMAIN result[1] = {"valid", "version", "errors", "warnings", "normalized"}
         /\ result[1].valid \in BOOLEAN
         /\ \A x \in Range(result[1].errors) \cup Range(result[1].warnings) :
                x.severity \in {"error", "warning"}

\* C3 witness: validate has returned on the empty string.
C3_Witness ==
    /\ Done
    /\ input.kind = "string" /\ input.text = ""
    /\ Len(result[1].errors) = 1

\* The entries of the normalized config of the running call.
Entries == normalized[1].accepts

\* The four per-entry rules, by the stage name the history records.
PerEntryStages == {"requirements", "network", "address", "amount"}

\* What a per-entry rule reports for an entry under a path, by stage name.
RuleOn(stage, entry, path) ==
    CASE stage = "requirements" -> validateRequirements(entry, path, format)
      [] stage = "network" -> validateNetwork(entry, path)
      [] stage = "address" -> validateAddress(entry, path)
      [] OTHER -> validateAmount(entry, path)

\* All issues of the returned result.
Reported == Range(result[1].errors) \cup Range(result[1].warnings)

\* C4: on a fatal input (a string that is not JSON, a non-object, an object
\* detect classifies as unknown) validate returns exactly one error, no
\* warnings, normalized = null and valid = false, and neither the normalizer
\* nor any structure or per-entry rule has run.
C4_FatalInputSingleError ==
    (Done /\ FatalInput) =>
        /\ Len(result[1].errors) = 1
        /\ result[1].errors[1].code \in {"INVALID_JSON", "NOT_OBJECT", "UNKNOWN_FORMAT"}
        /\ result[1].errors[1].severity = "error"
        /\ result[1].warnings = <<>>
        /\ result[1].normalized = <<>>
        /\ ~result[1].valid
        /\ log = <<>>
        /\ normalized = <<>>

\* C4 witness: validate has returned on an object of unknown format.
C4_Witness ==
    /\ Done
    /\ input.kind = "object"
    /\ detect(input.value) = "unknown"
    /\ result[1].errors[1].code = "UNKNOWN_FORMAT"

\* C5: normalized is null only on a fatal input error; for every input of a
\* recognized format it is the non-null config the normalizer built
\* (canonical top-level keys, an entry list with one entry per input entry,
\* or the one entry made of a flat document), also when errors are reported.
C5_NormalizedNullOnlyOnFatal ==
    Done =>
        /\ result[1].normalized = <<>> <=> FatalInput
        /\ ~FatalInput =>
             LET cfg == result[1].normalized[1]
             IN  /\ DOMAIN cfg \subseteq ConfigKeys
                 /\ Has(cfg, "accepts")
                 /\ Len(cfg.accepts) = IF Has(input.value, "accepts")
                                        THEN Len(input.value.accepts) ELSE 1
                 /\ result[1].normalized = normalized
                 /\ result[1].version = detect(input.value)

\* C5 witness: an invalid non-strict result, with a structure warning and
\* a per-entry error, carries the normalized config.
C5_Witness ==
    /\ Done /\ ~strict /\ ~FatalInput
    /\ \E x \in Range(result[1].warnings) : x.code = "INVALID_RESOURCE_URL"
    /\ \E x \in Range(result[1].errors) : x.field.list = "accepts"
    /\ ~result[1].valid
    /\ result[1].normalized # <<>>

RECURSIVE Flatten(_)
\* The issues of a sequence of rule invocations, in invocation order.
Flatten(runs) ==
    IF runs = <<>> THEN <<>> ELSE Head(runs).issues \o Flatten(Tail(runs))

\* C7: each of the four rules has been run exactly once on every entry, what
\* it found is what the rule finds on that entry alone (whatever the other
\* rules and the sibling entries raise), and every issue found is in the
\* result: none is dropped.
C7_AllRulesAllEntries ==
    (Done /\ ~FatalInput) =>
        /\ \A k \in 0..(Len(Entries) - 1) : \A st \in PerEntryStages :
              /\ Cardinality({n \in 1..Len(log) : log[n].stage = st /\ log[n].index = k}) = 1
              /\ \E r \in Range(log) :
                    /\ r.stage = st /\ r.index = k
                    /\ r.issues = RuleOn(st, Entries[k + 1], [list |-> "accepts", index |-> k])
                    /\ \A x \in Range(r.issues) :
                          \E y \in Reported : Detection(y) = Detection(x)
        /\ Len(result[1].errors) + Len(result[1].warnings) = Len(Flatten(log))

\* C7 witness: the first entry has errors from three rules, the second an
\* error from the address rule, and all four are in the returned errors.
C7_Witness ==
    /\ Done /\ ~FatalInput
    /\ Len(Entries) = 2
    /\ Entries[1] = E_multi /\ Entries[2] = E_solbad
    /\ {"MISSING_SCHEME", "INVALID_AMOUNT", "BAD_EVM_CHECKSUM", "INVALID_SOLANA_ADDRESS"}
          \subseteq {x.code : x \in Range(result[1].errors)}

\* The position of a rule invocation in the pipeline: normalizer, structure
\* rules, then the entries by index.
StageRank(r) ==
    CASE r.stage = "normalize" -> 0
      [] r.stage = "structure" -> 1
      [] OTHER -> 2 + r.index

\* The pipeline position of the invocation that found an issue.
IssueRank(x) ==
    StageRank(CHOOSE r \in Range(log) : \E y \in Range(r.issues) : Detection(y) = Detection(x))

\* In a list of issues, every structure issue precedes every per-entry
\* issue and the issues of entry i precede those of entry j for i < j.
InPipelineOrder(s) ==
    \A a \in 1..Len(s) : \A b \in 1..Len(s) :
        (a < b /\ IssueRank(s[a]) >= 1 /\ IssueRank(s[b]) >= 1) =>
            IssueRank(s[a]) <= IssueRank(s[b])

\* C8 as stated: in each of the errors and warnings lists of every result,
\* structure issues precede per-entry issues and entry i's precede entry j's
\* for i < j.
C8_Original ==
    (Done /\ ~FatalInput) =>
        /\ InPipelineOrder(result[1].errors)
        /\ InPipelineOrder(result[1].warnings)

\* C8 as amended: the order holds in both lists of a non-strict result; a
\* strict result's errors are the errors in pipeline order followed by the
\* promoted warnings in pipeline order.
C8_PipelineOrder ==
    (Done /\ ~FatalInput) =>
        LET found == Flatten(log)
            ne == Len(Filter(found, "error"))
        IN  /\ \A a \in 1..Len(log) : \A b \in 1..Len(log) :
                  a < b => StageRank(log[a]) <= StageRank(log[b])
            /\ IF ~strict
               THEN /\ result[1].errors = Filter(found, "error")
                    /\ result[1].warnings = Filter(found, "warning")
                    /\ InPipelineOrder(result[1].errors)
                    /\ InPipelineOrder(result[1].warnings)
               ELSE /\ result[1].errors = Filter(found, "error") \o Promote(Filter(found, "warning"))
                    /\ InPipelineOrder(SubSeq(result[1].errors, 1, ne))
                    /\ InPipelineOrder(SubSeq(result[1].errors, ne + 1, Len(result[1].errors)))

\* C8 witness: a non-strict result whose warnings list holds a structure
\* warning and warnings of both entries.
C8_Witness ==
    /\ Done /\ ~strict /\ ~FatalInput
    /\ \E x \in Range(result[1].warnings) : IssueRank(x) = 1
    /\ \E x \in Range(result[1].warnings) : IssueRank(x) = 2
    /\ \E x \in Range(result[1].warnings) : IssueRank(x) = 3

\* The issues the normalize stage reported.
NormalizeIssues == UNION {Range(r.issues) : r \in {q \in Range(log) : q.stage = "normalize"}}

\* C9: every issue a per-entry rule produces for the entry at zero-based
\* index k carries the path accepts[k].<field>: the index is that of the
\* entry the rule was run on, it is within the list, and the issue is what
\* the rule finds on that very entry (the normalizer's own warnings are not
\* a rule's).  In particular a first entry whose
\* recipient has a wrong checksum yields an error at accepts[0].payTo whose
\* fix is the checksummed address.
C9_EntryPaths ==
    /\ \A r \in Range(log) : r.stage \in PerEntryStages =>
          \A x \in Range(r.issues) :
              /\ x.field.list = "accepts"
              /\ x.field.index = r.index
              /\ x.field.name \in {"scheme", "network", "amount", "asset", "payTo"}
    /\ (Done /\ ~FatalInput) =>
          /\ \A x \in Reported :
                (/\ x.field.list = "accepts"
                 /\ Detection(x) \notin {Detection(y) : y \in NormalizeIssues}) =>
                /\ x.field.index \in 0..(Len(Entries) - 1)
                /\ \E st \in PerEntryStages :
                      \E y \in Range(RuleOn(st, Entries[x.field.index + 1],
                                            [list |-> "accepts", index |-> x.field.index])) :
                          Detection(y) = Detection(x)
          /\ (Len(Entries) >= 1 /\ Entries[1] \in {E_flipped, E_multi}) =>
                \E x \in Range(result[1].errors) :
                    /\ x.code = "BAD_EVM_CHECKSUM"
                    /\ x.field = [list |-> "accepts", index |-> 0, name |-> "payTo"]
                    /\ x.fix = ADDR_OK

\* C9 witness: scenario C (the first entry's payTo with one letter flipped)
\* followed by a second entry with an issue of its own.
C9_Witness ==
    /\ Done /\ ~FatalInput
    /\ Len(Entries) = 2
    /\ Entries[1] = E_flipped
    /\ \E x \in Range(result[1].errors) : x.code = "BAD_EVM_CHECKSUM" /\ x.field.index = 0
    /\ \E x \in Reported : x.field.list = "accepts" /\ x.field.index = 1

\* A detect call has returned on an input that parses to an object.
DetectedObject ==
    /\ pc = "done" /\ op = "detect"
    /\ input.kind = "object" \/ (input.kind = "string" /\ input.text = "JSON")

\* C10 as stated: the classification is a function of key presence alone.
C10_Original ==
    DetectedObject =>
        LET keys == DOMAIN input.value
        IN  result[1] =
              IF "accepts" \in keys
              THEN IF {"x402Version", "resource"} \subseteq keys THEN "v2" ELSE "v1"
              ELSE IF keys \cap {"payTo", "amount"} # {} THEN "flat-legacy"
              ELSE "unknown"

\* C10 as amended: detect returns one of the four formats on every input
\* (unknown on what does not parse to an object); the classification is
\* decided by key presence and by whether the version marker equals 2: with
\* an entry list, current needs the version marker 2 and the resource
\* marker, anything else with an entry list is previous; without one, a
\* root-level payTo or amount makes flat-legacy; else unknown.  An object
\* with both an entry list and flat fields is never flat-legacy, and
\* validate reports the same format.
C10_DetectTable ==
    /\ (pc = "done" /\ op = "detect") =>
          /\ result[1] \in {"v2", "v1", "flat-legacy", "unknown"}
          /\ ~DetectedObject => result[1] = "unknown"
    /\ DetectedObject =>
          LET keys == DOMAIN input.value
              two == "x402Version" \in keys /\ input.value.x402Version = 2
          IN  /\ (("accepts" \in keys /\ two /\ "resource" \in keys) => result[1] = "v2")
              /\ (("accepts" \in keys /\ ~(two /\ "resource" \in keys)) => result[1] = "v1")
              /\ (("accepts" \notin keys /\ keys \cap {"payTo", "amount"} # {})
                     => result[1] = "flat-legacy")
              /\ (("accepts" \notin keys /\ keys \cap {"payTo", "amount"} = {})
                     => result[1] = "unknown")
    /\ (Done /\ ~FatalInput) =>
          result[1].version \in {"v2", "v1", "flat-legacy"}
    /\ (Done /\ ~FatalInput /\ {"accepts", "payTo"} \subseteq DOMAIN input.value) =>
          result[1].version # "flat-legacy"

\* C10 witness: detect has classified an object holding an entry list, the
\* version marker 2, the resource marker and root-level flat fields.
C10_Witness ==
    /\ DetectedObject
    /\ {"accepts", "payTo", "amount", "resource"} \subseteq DOMAIN input.value
    /\ result[1] = "v2"

(***************************************************************************)
(* Normalization                                                           *)
(***************************************************************************)
\* A normalize call has returned a config (not null).
NormalizeDone == pc = "done" /\ op = "normalize" /\ result[1] # <<>>

\* A current-format object already in the canonical shape: only the keys of
\* the canonical config, every network already a CAIP-2 identifier rather
\* than a simple chain name.
AlreadyCanonical(obj) ==
    /\ detect(obj) = "v2"
    /\ DOMAIN obj \subseteq ConfigKeys
    /\ \A k \in 1..Len(obj.accepts) : ~IsSimpleName(obj.accepts[k])

\* C11: normalize applied to what normalize returned yields an equal
\* config (the returned config is itself of a recognized format), and an
\* already-canonical current-format object is returned unchanged, with no
\* warning.
C11_NormalizeIdempotent ==
    NormalizeDone =>
        LET once == result[1][1]
        IN  /\ detect(once) \in {"v2", "v1"}
            /\ normalizeConfig(once, detect(once)).normalized = once
            /\ AlreadyCanonical(input.value) =>
                  /\ once = input.value
                  /\ normalizeConfig(input.value, "v2").warnings = <<>>

\* C11 witness: normalize has returned on a previous-format config with a
\* renamed amount field, and the returned config differs from the input.
C11_Witness ==
    /\ NormalizeDone
    /\ detect(input.value) = "v1"
    /\ \E k \in 1..Len(input.value.accepts) : Has(input.value.accepts[k], "maxAmountRequired")
    /\ result[1][1] # input.value

\* The financial values of an input entry (or of a flat document's root):
\* recipient, network and amount, the amount under either of its names.
Financial(e) ==
    [payTo |-> IF Has(e, "payTo") THEN <<e.payTo>> ELSE <<>>,
     network |-> IF Has(e, "network") THEN <<e.network>> ELSE <<>>,
     amount |-> IF Has(e, "amount") THEN <<e.amount>>
                ELSE IF Has(e, "maxAmountRequired") THEN <<e.maxAmountRequired>>
                ELSE <<>>]

\* A normalized config carries the financial values of the document it was
\* made from: entry by entry, or in its one entry for a flat document.
CarriedVerbatim(doc, cfg) ==
    IF Has(doc, "accepts")
    THEN /\ Len(cfg.accepts) = Len(doc.accepts)
         /\ \A k \in 1..Len(doc.accepts) :
               /\ Financial(cfg.accepts[k]) = Financial(doc.accepts[k])
               /\ ~Has(cfg.accepts[k], "maxAmountRequired") \/ detect(doc) = "v2"
    ELSE /\ Len(cfg.accepts) = 1
         /\ Financial(cfg.accepts[1]) = Financial(doc)

\* C12: for every recognized format each normalized entry carries the
\* amount, payTo and network of its input entry verbatim (an alias stays an
\* alias), and a flat-legacy input yields exactly one entry holding the
\* root-level values; in validate's result and in what normalize returns.
\* The normalizer maps a simple chain name to its CAIP-2 identifier, so the
\* network of such an entry is not the one the input has.
C12_FinancialValuesVerbatim ==
    /\ (Done /\ ~FatalInput) => CarriedVerbatim(input.value, result[1].normalized[1])
    /\ NormalizeDone => CarriedVerbatim(input.value, result[1][1])

\* C13: no step of a validate, detect or normalize call, on success or on
\* an error path, changes the caller's input.
C13_InputUnchanged == [][input' = input]_vars

\* C13 witness: validate has returned a normalized config that differs from
\* the input (the amount field renamed), and the input still has the keys
\* and values it was given.
C13_Witness ==
    /\ Done /\ ~FatalInput
    /\ Has(input.value, "accepts")
    /\ input.value.accepts = <<E_v1>>
    /\ result[1].normalized[1].accepts[1] # E_v1
    /\ Has(result[1].normalized[1].accepts[1], "amount")


\* Every issue of a returned result, errors first.
AllIssues(r) == r.errors \o r.warnings

\* The legacy-format issues among a sequence of issues.
LegacyIssues(seq) == SelectSeq(seq, LAMBDA x : x.code = "LEGACY_FORMAT")

\* C14: a validate call that reaches the normalizer reports the
\* legacy-format issue exactly once for a flat-legacy or v1 input and never
\* for a v2 input; the issue is at field "$" and carries a fix; without
\* strict mode it is a warning, and when it is the only issue the result is
\* valid.
C14_LegacyWarningOnce ==
    (Done /\ ~FatalInput) =>
        LET all == AllIssues(result[1])
            legacy == LegacyIssues(all)
        IN  /\ Len(legacy) = (IF detect(input.value) \in {"flat-legacy", "v1"} THEN 1 ELSE 0)
            /\ \A k \in 1..Len(legacy) :
                  /\ legacy[k].field = TopPath("$")
                  /\ legacy[k].fix # <<>>
                  /\ ~strict => legacy[k].severity = "warning"
            /\ ~strict => LegacyIssues(result[1].errors) = <<>>
            /\ (~strict /\ all = legacy) => result[1].valid

\* C14 witness: a flat-legacy input validated without strict mode whose
\* only issue is the legacy-format warning, and which is valid.
C14_Witness ==
    /\ Done /\ ~FatalInput /\ ~strict
    /\ detect(input.value) = "flat-legacy"
    /\ Len(result[1].warnings) = 1
    /\ result[1].warnings[1].code = "LEGACY_FORMAT"
    /\ result[1].warnings[1].severity = "warning"
    /\ result[1].errors = <<>>
    /\ result[1].valid


\* A finished validate call on a config of a recognized format whose entry
\* list is present and empty, whose version is 1 or 2 and whose resource
\* descriptor, when present, is well formed.
EmptyEntryList ==
    /\ Done /\ ~FatalInput
    /\ Has(input.value, "accepts") /\ input.value.accepts = <<>>
    /\ Has(input.value, "x402Version") /\ input.value.x402Version \in {1, 2}
    /\ Has(input.value, "resource") => IsUrl(input.value.resource.url)

\* The result is invalid, its only error is the empty-entries error, and no
\* issue is located in an entry.
OnlyEmptyAccepts(r) ==
    /\ ~r.valid
    /\ Len(r.errors) = 1
    /\ r.errors[1].code = "EMPTY_ACCEPTS"
    /\ \A k \in 1..Len(AllIssues(r)) : AllIssues(r)[k].field.list # "accepts"

\* C15 as stated: an empty entry list with the other top-level fields valid
\* gives valid = false with exactly one error, the empty-entries error, and
\* no per-entry issue, whatever the options.
C15_Original == EmptyEntryList => OnlyEmptyAccepts(result[1])

\* C15: an empty entry list with the other top-level fields valid gives
\* valid = false with the empty-entries error and no per-entry issue; the
\* empty-entries error is the only error unless the call is strict and the
\* config is of a legacy format, where the promoted legacy-format warning
\* is the second and last error.
C15_EmptyAccepts ==
    EmptyEntryList =>
        IF strict /\ detect(input.value) # "v2"
        THEN /\ ~result[1].valid
             /\ Len(result[1].errors) = 2
             /\ result[1].errors[1].code = "EMPTY_ACCEPTS"
             /\ result[1].errors[2].code = "LEGACY_FORMAT"
             /\ \A k \in 1..Len(AllIssues(result[1])) :
                   AllIssues(result[1])[k].field.list # "accepts"
        ELSE OnlyEmptyAccepts(result[1])

\* C15 witness: the current-format config of scenario B, validated without
\* strict mode, with the empty-entries error alone.
C15_Witness ==
    /\ EmptyEntryList /\ ~strict
    /\ detect(input.value) = "v2"
    /\ OnlyEmptyAccepts(result[1])
    /\ result[1].warnings = <<>>


\* The address rule has returned for a hex address of correct prefix and
\* length on a network of the checksummed-hex family.
EvmRuleDone ==
    /\ pc = "done" /\ op = "validateAddressForNetwork"
    /\ input.networkType = "evm"
    /\ IsHexAddress(input.address)

\* The letters of the address are all lowercase or all uppercase.
OneCase(address) ==
    \/ Hex40(address) = ToLowerCase(Hex40(address))
    \/ Hex40(address) = ToUpperCase(Hex40(address))

\* The issues are the single checksum error at the recipient's path, with
\* the encoded address as fix.
IsChecksumError(found, address) ==
    /\ Len(found) = 1
    /\ found[1].severity = "error"
    /\ found[1].code = "BAD_EVM_CHECKSUM"
    /\ found[1].field = FieldPath(EntryPath(0), "payTo")
    /\ found[1].fix = toChecksumAddress(address)

\* The issues are a single warning.
IsOneWarning(found) == Len(found) = 1 /\ found[1].severity = "warning"

\* The three outcomes of the rule, by the address alone.
ThreeOutcomes(found, address) ==
    IF address = toChecksumAddress(address) THEN found = <<>>
    ELSE IF OneCase(address) THEN IsOneWarning(found)
    ELSE IsChecksumError(found, address)

\* The address is a correctly checksummed mixed-case account with the case
\* of one letter flipped.
IsSingleFlip(address) ==
    \E v \in Accounts :
        /\ v = toChecksumAddress(v) /\ ~OneCase(v)
        /\ address \in SingleFlips(v)

\* C16 as stated: the three outcomes, and every single-letter flip of a
\* correctly checksummed mixed-case address is the checksum error.
C16_Original ==
    EvmRuleDone =>
        /\ ThreeOutcomes(result[1], input.address)
        /\ IsSingleFlip(input.address) => IsChecksumError(result[1], input.address)

\* C16: for a hex address of correct prefix and length the rule yields no
\* issue when the address equals its checksum encoding, else one warning
\* when its letters are all lowercase or all uppercase, else one error at
\* the recipient's path whose fix is the encoded address.  A single-letter
\* flip of a correctly checksummed mixed-case address is that error unless
\* the flip leaves all letters in one case, which is the warning.
C16_ChecksumOutcomes ==
    EvmRuleDone =>
        /\ ThreeOutcomes(result[1], input.address)
        /\ IsSingleFlip(input.address) =>
              IF OneCase(input.address)
              THEN IsOneWarning(result[1])
              ELSE IsChecksumError(result[1], input.address)

\* C16 witness: scenario C's address, one letter of the reference address
\* flipped, reported as the checksum error with the reference address as
\* fix.
C16_Witness ==
    /\ EvmRuleDone
    /\ input.address = ADDR_FLIPPED
    /\ IsSingleFlip(input.address)
    /\ IsChecksumError(result[1], input.address)
    /\ result[1][1].fix = ADDR_OK


\* toChecksumAddress has returned.
ChecksumDone == pc = "done" /\ op = "toChecksumAddress"

\* Hex digit n (from 0) of a digest: the high nibble of byte n/2 for even n,
\* the low nibble for odd n.
DigestNibble(hash, n) == (hash[(n \div 2) + 1] \div (IF n % 2 = 0 THEN 16 ELSE 1)) % 16

\* C17: toChecksumAddress is idempotent and ignores the letter case of its
\* input; its output differs from the input only in letter case, a letter
\* at position n is uppercase exactly when digest nibble n is 8 or more,
\* and digits are unchanged.
C17_ChecksumEncode ==
    ChecksumDone =>
        LET a == input.address
            c == result[1]
            hash == keccak256(LowerHex(a))
        IN  /\ toChecksumAddress(c) = c
            /\ toChecksumAddress(SubSeq(ToLowerCase(a), 1, Len(a))) = c
            /\ Len(c) = Len(a)
            /\ \A k \in 1..Len(a) : toLowerCaseChar(c[k]) = toLowerCaseChar(a[k])
            /\ \A n \in 0..39 :
                  IF IsLetter(c[n + 3])
                  THEN IndexOf(UPPERCASE, c[n + 3]) > 0 <=> DigestNibble(hash, n) >= 8
                  ELSE c[n + 3] = a[n + 3]

\* C17 witness: the all-uppercase spelling of the reference address is
\* encoded to the reference address, which has letters of both cases.
C17_Witness ==
    /\ ChecksumDone
    /\ input.address = ADDR_UPPER
    /\ result[1] = ADDR_OK
    /\ result[1] # input.address
    /\ toChecksumAddress(result[1]) = result[1]


\* base58Decode has returned; Decoded when it returned bytes.
Base58Done == pc = "done" /\ op = "base58Decode"
Decoded == Base58Done /\ ~result[1].threw

\* C18: a text over the alphabet with exactly N leading '1' characters
\* decodes to bytes with exactly N leading zero bytes (the byte after them,
\* if any, is not zero), and a text of N '1' characters and nothing else
\* decodes to exactly N zero bytes.
C18_LeadingZeros ==
    Decoded =>
        LET ones == CountLeading(input.str, "1", 1)
            bytes == result[1].bytes
        IN  /\ Len(bytes) >= ones
            /\ \A k \in 1..ones : bytes[k] = 0
            /\ Len(bytes) > ones => bytes[ones + 1] # 0
            /\ ones = Len(input.str) => Len(bytes) = ones

\* C18 witness: two '1' characters in front of the USDC mint decode to two
\* zero bytes in front of the mint's 32 bytes, the first of them not zero.
C18_Witness ==
    /\ Decoded
    /\ input.str = <<"1", "1">> \o SOL_USDC
    /\ Len(result[1].bytes) = 34
    /\ result[1].bytes[1] = 0 /\ result[1].bytes[2] = 0
    /\ result[1].bytes[3] # 0


\* The config of scenario D with the given recipient address.
ScenarioD(address) ==
    [x402Version |-> 2, resource |-> RESOURCE_OK,
     accepts |-> <<[E_sol EXCEPT !.payTo = address]>>]

\* A validate call without strict mode has returned for scenario D's config.
ScenarioDDone(address) == Done /\ ~strict /\ input.value = ScenarioD(address)

\* The result holds an issue of the given list with the given code at the
\* recipient of entry 0.
HasAtPayTo(seq, code) ==
    \E k \in 1..Len(seq) :
        seq[k].code = code /\ seq[k].field = FieldPath(EntryPath(0), "payTo")

\* C19 as stated: 44 '1' characters decode to 32 zero bytes, and the config
\* using them as recipient is valid with a no-checksum-available warning.
C19_Original ==
    /\ (Base58Done /\ input.str = SOL_ZEROS44) =>
          (~result[1].threw /\ result[1].bytes = Zeros(32))
    /\ ScenarioDDone(SOL_ZEROS44) =>
          (result[1].valid /\ HasAtPayTo(result[1].warnings, "NO_CHECKSUM_AVAILABLE"))

\* C19: 32 '1' characters decode to 32 zero bytes, and the config using
\* them as recipient is valid with a no-checksum-available warning; 44 '1'
\* characters decode to 44 zero bytes, and the config using them is invalid
\* with the address error.
C19_AllOnesAddress ==
    /\ (Base58Done /\ input.str = SOL_ZEROS) =>
          (~result[1].threw /\ result[1].bytes = Zeros(32))
    /\ ScenarioDDone(SOL_ZEROS) =>
          (result[1].valid /\ HasAtPayTo(result[1].warnings, "NO_CHECKSUM_AVAILABLE"))
    /\ (Base58Done /\ input.str = SOL_ZEROS44) =>
          (~result[1].threw /\ result[1].bytes = Zeros(44))
    /\ ScenarioDDone(SOL_ZEROS44) =>
          (~result[1].valid /\ HasAtPayTo(result[1].errors, "INVALID_SOLANA_ADDRESS"))

\* C19 witness: the config whose recipient is 32 '1' characters, validated
\* as valid with the no-checksum-available warning and no error.
C19_Witness ==
    /\ ScenarioDDone(SOL_ZEROS)
    /\ Len(base58Decode(input.value.accepts[1].payTo).bytes) = 32
    /\ result[1].valid
    /\ result[1].errors = <<>>
    /\ HasAtPayTo(result[1].warnings, "NO_CHECKSUM_AVAILABLE")


\* C20: base58Decode inverts the encoding: called on the encoding of a byte
\* sequence, with or without leading zero bytes or empty, it returns the
\* byte sequence.
C20_RoundTrip ==
    (Base58Done /\ input.of # <<>>) =>
        /\ input.str = base58Encode(input.of[1])
        /\ ~result[1].threw
        /\ result[1].bytes = input.of[1]

\* C20 witness: the bytes 0, 0, 255 are encoded with two leading '1'
\* characters and decoded back to the three bytes.
C20_Witness ==
    /\ Base58Done
    /\ input.of = <<(<<0, 0, 255>>)>>
    /\ Len(input.str) > 2
    /\ input.str[1] = "1" /\ input.str[2] = "1" /\ input.str[3] # "1"
    /\ result[1].bytes = <<0, 0, 255>>


\* The result a call returns when it runs alone on its input.
AloneResult(s) == RunAlone(NewCall(s.op, s.input, s.strict)).result

\* The single-call pipeline returns what RunAlone computes.
PipelineIsRunAlone ==
    (pc = "done" /\ op \in {"validate", "detect", "normalize"}) =>
        result = RunAlone(NewCall(op, input, strict)).result

\* C21: under every interleaving of concurrent validate, detect and
\* normalize calls, a call that has returned has the result it has when run
\* alone on its input (so calls on identical input return identical issues,
\* in the same order, at the same field paths), and the registry has its
\* start-up content.
C21_NoInterference ==
    /\ registry = StartupRegistry
    /\ \A c \in DOMAIN calls :
          calls[c].pc = "done" => calls[c].result = AloneResult(calls[c])
    /\ \A c, d \in DOMAIN calls :
          (/\ calls[c].pc = "done" /\ calls[d].pc = "done"
           /\ calls[c].op = calls[d].op /\ calls[c].input = calls[d].input
           /\ calls[c].strict = calls[d].strict)
          => calls[c].result = calls[d].result

\* C21 witness: a validate call has returned an error at accepts[0].payTo
\* while another validate call, on a different input, is inside its entry
\* loop.
C21_Witness ==
    /\ DOMAIN calls = 1..NumCalls
    /\ \E c, d \in DOMAIN calls :
          /\ c # d
          /\ calls[c].op = "validate" /\ calls[c].pc = "done"
          /\ \E k \in 1..Len(calls[c].result[1].errors) :
                calls[c].result[1].errors[k].field = FieldPath(EntryPath(0), "payTo")
          /\ calls[d].op = "validate" /\ calls[d].pc = "entries" /\ calls[d].i = 1
          /\ calls[d].input # calls[c].input


\* A CLI run on an input, or on none, has exited (not --version or --help,
\* which print and exit 0 without validating).
CliDone == pc = "done" /\ op = "cli" /\ input.flag = ""

\* The run had an input to validate.
ValidationRan(args) == args.source \in {"inline", "file", "stdin"}

\* What validate returns on the run's input with the run's options.
CliResult(args) == RunAlone(NewCall("validate", args.text, args.strict)).result[1]

\* C22: the exit code is 0 exactly when validate's result is valid, 1
\* whenever validation ran and the result is invalid (text that is not JSON
\* included), 2 exactly for no input and for a missing file; --quiet and
\* --json leave the exit code as it is without them; and --strict turns a
\* run that is valid with warnings from exit 0 into exit 1.
C22_ExitCodes ==
    CliDone =>
        /\ result[1].exitCode = 0 <=> (ValidationRan(input) /\ CliResult(input).valid)
        /\ result[1].exitCode = 1 <=> (ValidationRan(input) /\ ~CliResult(input).valid)
        /\ result[1].exitCode = 2 <=> ~ValidationRan(input)
        /\ result[1].exitCode =
              cliMain([input EXCEPT !.quiet = FALSE, !.json = FALSE]).exitCode
        /\ (input.quiet /\ ValidationRan(input)) => result[1].stdout = <<>>
        /\ (/\ ValidationRan(input) /\ ~input.strict
            /\ CliResult(input).valid /\ CliResult(input).warnings # <<>>)
           => /\ result[1].exitCode = 0
              /\ cliMain([input EXCEPT !.strict = TRUE]).exitCode = 1

\* C22 witness: a --strict --quiet run on a previous-format config that is
\* valid with a warning without --strict exits 1 and prints nothing.
C22_Witness ==
    /\ CliDone
    /\ input.strict /\ input.quiet /\ input.source = "inline"
    /\ CliResult([input EXCEPT !.strict = FALSE]).valid
    /\ CliResult([input EXCEPT !.strict = FALSE]).warnings # <<>>
    /\ result[1].exitCode = 1
    /\ result[1].stdout = <<>>

(***************************************************************************)
(* The network rule                                                        *)
(***************************************************************************)
RulesDone == op = "rules" /\ pc = "done" /\ result # <<>>

FamilyIssues(family, address, field) ==
    IF family = "evm" THEN validateEvmAddress(address, field)
    ELSE validateSolanaAddress(address, field)

HasSeverity(found, severity) == \E k \in DOMAIN found : found[k].severity = severity

AliasConfig(alias) ==
    [x402Version |-> 2, resource |-> RESOURCE_OK,
     accepts |-> <<[E_ok EXCEPT !.network = alias]>>]
AliasConfigDone(alias) == Done /\ ~strict /\ input.value = AliasConfig(alias)

\* The issue is a warning at the network field of `path` whose fix is the
\* canonical identifier of the alias.
SuggestsCanonical(issue, path, alias) ==
    /\ issue.severity = "warning"
    /\ issue.field = FieldPath(path, "network")
    /\ issue.fix = SIMPLE_NAME_MAP[alias]
    /\ SIMPLE_NAME_MAP[alias] \in DOMAIN NETWORKS

\* The entries of a validated document as the caller wrote them: the entry
\* list, or the root of a flat document.
InputEntries == IF Has(input.value, "accepts") THEN input.value.accepts ELSE <<input.value>>

\* The issues the normalize stage reported at a field.
NormalizeIssuesAt(field) == {x \in NormalizeIssues : x.field = field}

\* C24: an entry whose network is a friendly alias yields one issue at its
\* network field, from the network rule when the rule is handed the alias
\* and from the normalizer when the config is normalized, of severity warning and
\* with the canonical identifier as its fix; outside strict mode that
\* warning is among the result's warnings, and a config whose only problem
\* is the alias is valid, with no error.
C24_AliasIsWarning ==
    /\ (RulesDone /\ IsSimpleName(input.entry)) =>
          /\ Len(result[1].network) = 1
          /\ SuggestsCanonical(result[1].network[1], EntryPath(input.index),
                               input.entry.network)
    /\ (Done /\ ~FatalInput) =>
          \A k \in 1..Len(InputEntries) :
             IsSimpleName(InputEntries[k]) =>
                LET alias == InputEntries[k].network
                    path == EntryPath(k - 1)
                    found == NormalizeIssuesAt(FieldPath(path, "network"))
                IN  /\ Cardinality(found) = 1
                    /\ \A x \in found : SuggestsCanonical(x, path, alias)
                    /\ ~strict =>
                          \E w \in DOMAIN result[1].warnings :
                             SuggestsCanonical(result[1].warnings[w], path, alias)
    /\ AliasConfigDone(NetworkChars("base")) =>
          /\ result[1].valid
          /\ result[1].errors = <<>>
          /\ \E k \in DOMAIN result[1].warnings :
                SuggestsCanonical(result[1].warnings[k], EntryPath(0), NetworkChars("base"))

\* C24 witness: the config with network 'base' was validated as valid with
\* the warning that suggests eip155:8453, the identifier its normalized
\* entry carries.
C24_Witness ==
    /\ AliasConfigDone(NetworkChars("base"))
    /\ result[1].valid
    /\ result[1].normalized[1].accepts[1].network = NetworkChars("eip155:8453")
    /\ \E k \in DOMAIN result[1].warnings :
          /\ result[1].warnings[k].code = "SIMPLE_CHAIN_NAME"
          /\ result[1].warnings[k].fix = NetworkChars("eip155:8453")

(***************************************************************************)
(* The amount rule                                                         *)
(***************************************************************************)
\* The sample amounts by kind, as a reader of the amounts sorts them.
ZeroAmounts == {"0", "0.000", "number 0"}
NegativeAmounts == {"-1", "-0.5", "number -1"}
ExponentialAmounts == {"1e6", "1E6", "number 1e+21"}
OverPreciseAmounts == {"0.1234567", "number 0.1234567"}
PlainAmounts == {"1000000", "0.5", "1.000000", "number 1000000", "number 0.5"}

\* C25: the amount rule reports an error for an amount that is zero, negative
\* or in exponential notation, given as a string or as a number; an amount
\* that is otherwise valid and has more fraction digits than the decimals
\* known for the asset yields a warning and no error; a positive plain
\* decimal within the asset's decimals yields no issue.
C25_AmountRule ==
    (RulesDone /\ Has(input.entry, "amount") /\ Has(input.entry, "asset")
        /\ input.entry.asset \in DOMAIN KnownDecimals) =>
        LET a == input.entry.amount
            found == result[1].amount
        IN  /\ a \in ZeroAmounts \cup NegativeAmounts \cup ExponentialAmounts =>
                /\ HasSeverity(found, "error")
                /\ \A k \in DOMAIN found :
                      found[k].field = FieldPath(EntryPath(input.index), "amount")
            /\ a \in OverPreciseAmounts =>
                /\ Len(found) = 1
                /\ found[1].severity = "warning"
                /\ found[1].field = FieldPath(EntryPath(input.index), "amount")
            /\ a \in PlainAmounts => found = <<>>

\* C25 witness: a string with seven fraction digits for a six-decimal asset
\* is warned about and not rejected.
C25_Witness ==
    /\ RulesDone
    /\ DOMAIN input.entry = DOMAIN E_ok
    /\ input.entry.asset = USDC_BASE
    /\ input.entry.amount = "0.1234567"
    /\ FractionDigits(AmountLiteral(input.entry.amount).text) = 7
    /\ HasSeverity(result[1].amount, "warning")
    /\ ~HasSeverity(result[1].amount, "error")

(***************************************************************************)
(* The requirements rule                                                   *)
(***************************************************************************)
\* The issues of `found` that are at the given field of the given entry.
AtField(found, path, name) ==
    {k \in DOMAIN found : found[k].field = FieldPath(path, name)}

\* What the four rules found on one entry, in the order validate runs them.
AllFound(r) == r.requirements \o r.network \o r.address \o r.amount

\* C26: for an entry at any index and each of scheme, network, amount, asset
\* and recipient: when the field is missing, the rules report exactly one
\* issue at that field's path for that entry, and it is an error of the
\* requirements rule. A timeout that is absent yields no issue; a timeout
\* that is present and not positive yields an error; a positive one none.
C26_RequiredFields ==
    RulesDone =>
        LET e == input.entry
            path == EntryPath(input.index)
            req == result[1].requirements
            all == AllFound(result[1])
        IN  /\ \A f \in RequiredFields :
                ~Has(e, f) =>
                    /\ Cardinality(AtField(all, path, f)) = 1
                    /\ Cardinality(AtField(req, path, f)) = 1
                    /\ \A k \in AtField(req, path, f) : req[k].severity = "error"
            /\ \A f \in RequiredFields : Has(e, f) => AtField(req, path, f) = {}
            /\ ~Has(e, "maxTimeoutSeconds") => AtField(all, path, "maxTimeoutSeconds") = {}
            /\ (Has(e, "maxTimeoutSeconds") /\ e.maxTimeoutSeconds <= 0) =>
                    /\ Cardinality(AtField(req, path, "maxTimeoutSeconds")) = 1
                    /\ \A k \in AtField(req, path, "maxTimeoutSeconds") :
                          req[k].severity = "error"
            /\ (Has(e, "maxTimeoutSeconds") /\ e.maxTimeoutSeconds > 0) =>
                    AtField(all, path, "maxTimeoutSeconds") = {}

\* C26 witness: the second entry of a list lacks its asset and its recipient
\* and has a timeout of zero: three errors, each at its field's path.
C26_Witness ==
    /\ RulesDone
    /\ input.index = 1
    /\ DOMAIN input.entry = {"scheme", "network", "amount", "maxTimeoutSeconds"}
    /\ input.entry.maxTimeoutSeconds = 0
    /\ Len(result[1].requirements) = 3
    /\ \A f \in {"asset", "payTo", "maxTimeoutSeconds"} :
          AtField(result[1].requirements, EntryPath(1), f) # {}

(***************************************************************************)
(* The raw-Base58 address family                                           *)
(***************************************************************************)
\* The number of bytes each sample raw-Base58 address stands for.
ByteLengthOf ==
    [a \in {SOL_USDC, SOL_TYPO, SOL_ZEROS, SOL_ZEROS44, SOL_SHORT, SOL_LONG} |->
        CASE a = SOL_ZEROS44 -> 44
          [] a = SOL_SHORT -> 15
          [] a = SOL_LONG -> 33
          [] OTHER -> 32]

\* The networks of the rule calls whose addresses are raw Base58.
SolanaNetworks ==
    {n \in DOMAIN NETWORKS : NETWORKS[n] = "solana"}
    \cup {NetworkChars("solana:localnet")}

\* What the address rule may report on a raw-Base58 address of known length.
RawBase58Outcome(address, found) ==
    /\ ByteLengthOf[address] # 32 => HasSeverity(found, "error")
    /\ ByteLengthOf[address] = 32 =>
          /\ Len(found) = 1
          /\ found[1].severity = "warning"
          /\ found[1].code = "NO_CHECKSUM_AVAILABLE"
    /\ \A k \in DOMAIN found :
          found[k].code \notin {"BAD_EVM_CHECKSUM", "NO_EVM_CHECKSUM"}

\* C27: for the raw-Base58 family the address rule reports an error whenever
\* the address decodes to fewer or to more than 32 bytes; an address of 32
\* bytes yields no error and exactly one no-checksum warning; no address
\* yields a checksum-mismatch error.
C27_RawBase58Length ==
    /\ (pc = "done" /\ op = "validateAddressForNetwork" /\ input.networkType = "solana") =>
          /\ input.address \in DOMAIN ByteLengthOf =>
                RawBase58Outcome(input.address, result[1])
          /\ \A k \in DOMAIN result[1] : result[1][k].code # "BAD_EVM_CHECKSUM"
    /\ (RulesDone /\ Has(input.entry, "network") /\ Has(input.entry, "payTo")
          /\ input.entry.network \in SolanaNetworks) =>
          /\ input.entry.payTo \in DOMAIN ByteLengthOf =>
                RawBase58Outcome(input.entry.payTo, result[1].address)
          /\ \A k \in DOMAIN result[1].address :
                result[1].address[k].code # "BAD_EVM_CHECKSUM"

\* C27 witness: the mistyped mint address, still 32 bytes, passes with the
\* one warning, and the 33-byte address is rejected, on a registered network.
C27_Witness ==
    /\ RulesDone
    /\ DOMAIN input.entry = DOMAIN E_ok
    /\ input.entry.network = NetworkChars("solana:5eykt4UsFv8P8NJdTREpY1vzqKqZKvdp")
    /\ input.entry.payTo = SOL_LONG
    /\ Len(base58Decode(SOL_LONG).bytes) = 33
    /\ Len(base58Decode(SOL_TYPO).bytes) = 32
    /\ HasSeverity(result[1].address, "error")
    /\ validateSolanaAddress(SOL_TYPO, FieldPath(EntryPath(0), "payTo"))
          = <<Warning("NO_CHECKSUM_AVAILABLE", FieldPath(EntryPath(0), "payTo"), <<>>)>>

(***************************************************************************)
(* Characters outside the Base58 alphabet                                  *)
(***************************************************************************)
\* The 58 characters of the alphabet, written out.
Base58Chars ==
    {"1", "2", "3", "4", "5", "6", "7", "8", "9"}
    \cup {"A", "B", "C", "D", "E", "F", "G", "H", "J", "K", "L", "M", "N",
          "P", "Q", "R", "S", "T", "U", "V", "W", "X", "Y", "Z"}
    \cup {"a", "b", "c", "d", "e", "f", "g", "h", "i", "j", "k", "m", "n",
          "o", "p", "q", "r", "s", "t", "u", "v", "w", "x", "y", "z"}

HasOutsideChar(text) == \E k \in DOMAIN text : text[k] \notin Base58Chars

\* C28: base58Decode fails with its invalid-character error exactly when the
\* text holds, at any position, a character outside the alphabet ('0', 'O',
\* 'I', 'l' and characters that are not ASCII included), and returns bytes
\* otherwise. When the recipient of an entry on a raw-Base58 network holds
\* such a character, the address rule and validate report an error at that
\* entry's recipient field, and no exception escapes.
C28_InvalidCharacter ==
    /\ Base58Done => (result[1].threw <=> HasOutsideChar(input.str))
    /\ (RulesDone /\ Has(input.entry, "network") /\ Has(input.entry, "payTo")
          /\ input.entry.network \in SolanaNetworks
          /\ HasOutsideChar(input.entry.payTo)) =>
          /\ result[1].address # Exception
          /\ Len(result[1].address) = 1
          /\ result[1].address[1].severity = "error"
          /\ result[1].address[1].field = FieldPath(EntryPath(input.index), "payTo")
    /\ (Done /\ normalized # <<>>) =>
          \A n \in DOMAIN Entries :
              (/\ Has(Entries[n], "network") /\ Has(Entries[n], "payTo")
               /\ Entries[n].network \in SolanaNetworks
               /\ HasOutsideChar(Entries[n].payTo)) =>
                  /\ ~result[1].valid
                  /\ \E k \in DOMAIN result[1].errors :
                        /\ result[1].errors[k].field = FieldPath(EntryPath(n - 1), "payTo")
                        /\ result[1].errors[k].severity = "error"
                  /\ \A k \in DOMAIN AllIssues(result[1]) :
                        AllIssues(result[1])[k].severity # "exception"

\* C28 witness: the decoder has thrown on a 44-character address whose only
\* character outside the alphabet is its last one, not an ASCII character.
C28_Witness ==
    /\ Base58Done
    /\ input.str = WithCharAt(SOL_TYPO, 44, "é")
    /\ \A k \in 1..43 : input.str[k] \in Base58Chars
    /\ result[1].threw

(***************************************************************************)
(* Termination                                                             *)
(***************************************************************************)
\* A bound on the steps base58Decode has left, from the locals of the call:
\* the zero-count loop, then for each remaining character one round of the
\* inner loop over the buffer, then the skip loop over the buffer.
DecodeRank(d) ==
    LET len == Len(d.str)
        round == BufferSize(d.str) + 2
        outer(n) == (len - n) * round + round + 1
    IN  CASE d.at = "zeros" -> outer(0) + 2 + (len - d.i)
          [] d.at = "alloc" -> outer(0) + 1
          [] d.at = "outer" -> outer(d.i)
          [] d.at = "inner" -> outer(d.i) - (d.size - d.j)
          [] d.at = "skip" -> round - d.start
          [] d.at = "return" -> 1
          [] OTHER -> 0

\* Every step of base58Decode lowers the bound, which never goes below 0.
DecodeStepsBounded ==
    (calls # <<>> /\ calls' # <<>>) =>
        /\ DecodeRank(calls'[1]) < DecodeRank(calls[1])
        /\ DecodeRank(calls'[1]) >= 0

\* Every iteration of the loop over the entries moves on to the next entry
\* and stays within the list.
EntryLoopBounded ==
    (op = "validate" /\ pc = "entries" /\ pc' = "entries") =>
        (i' = i + 1 /\ i' <= Len(normalized[1].accepts))

\* C29: every call of validate, detect, normalize and base58Decode
\* terminates. Each loop is bounded (every iteration of the entry loop
\* advances within the list; every step of the decoder's loops lowers a
\* bound that stays non-negative), and from every input a call that keeps
\* running reaches the state where its result is returned and stays there.
C29_Termination ==
    /\ [][EntryLoopBounded]_vars
    /\ [][DecodeStepsBounded]_calls
    /\ <>[](pc = "done" /\ result # <<>>)

\* C29 witness: the decoder has returned after running through all 44
\* characters of an address, 34 buffer positions for each.
C29_Witness ==
    /\ op = "base58DecodeSteps" /\ pc = "done"
    /\ input.str = SOL_USDC
    /\ calls[1].at = "returned"
    /\ calls[1].i = 44
    /\ calls[1].size = 34
    /\ ~result[1].threw
    /\ result[1] = base58Decode(input.str)

\* The value of a text in radix 58 and of a buffer in radix 256.
RECURSIVE TextValue(_, _)
TextValue(text, n) ==
    IF n = 0 THEN 0 ELSE TextValue(text, n - 1) * 58 + map(text[n])

RECURSIVE BufferValue(_, _)
BufferValue(buf, n) ==
    IF n = 0 THEN 0 ELSE BufferValue(buf, n - 1) * 256 + buf[n]

\* The inner loop has run over the whole buffer for character i.
PassDone == Decoding("inner") /\ calls[1].j < 0

\* C30: the buffer of ceil(len * 733 / 1000) + 1 bytes is large enough.
\* After the multiply-by-58-and-add pass for each character the carry that
\* leaves the most significant byte is zero, and (for the texts short
\* enough to compute their value) the buffer holds the whole value of the
\* characters converted so far.
C30_CarryOutZero ==
    PassDone =>
        /\ calls[1].carry = 0
        /\ Len(calls[1].str) <= MaxStepLen =>
               BufferValue(calls[1].b256, calls[1].size)
                   = TextValue(calls[1].str, calls[1].i + 1)

\* C30 witness: the last pass over the text of 44 'z' is done; the value
\* fills 33 of the 34 bytes and nothing is carried out.
C30_Witness ==
    /\ PassDone
    /\ input.str = WorstText(44)
    /\ calls[1].i = 43
    /\ calls[1].size = 34
    /\ calls[1].b256[1] = 0
    /\ calls[1].b256[2] # 0
    /\ calls[1].carry = 0
====
